---- MODULE Spec2Model ----
(***************************************************************************)
(* A model of the WebRender frame renderer (webrender/src/renderer.rs):    *)
(* the result-channel drain Renderer::update, the frame draw               *)
(* Renderer::render / render_impl with the GPU cache (CacheTexture), the   *)
(* deferred external-image resolves and the frame-output blits, and the    *)
(* texture-size checks of Renderer::new.                                   *)
(*                                                                         *)
(* Rust values keep their 0-based indices (address.v, block_index, pass    *)
(* index); TLA+ sequences are 1-based, so a Vec element i is seq[i + 1].   *)
(* Option<T> is modelled as a sequence of length 0 (None) or 1 (Some).     *)
(***************************************************************************)
EXTENDS Integers, Sequences, FiniteSets, TLC

VARIABLES
    result_rx,  \* the ResultMsg channel from the backend thread to the renderer
    renderer,   \* the fields of Renderer, its device mock and the history
    backend,    \* the backend thread: how many frames it has published
    ctor,       \* inputs and outcome of Renderer::new
    cache,      \* a CacheTexture driven call by call, with the device's texture
    resolver,   \* a SourceTextureResolver and its device, driven frame by frame
    builder,    \* a render-task graph, its pass assignment and the passes drawn
    batcher     \* the batch lists of a color target and the batches submitted

vars == <<result_rx, renderer, backend, ctor, cache, resolver, builder, batcher>>

----------------------------------------------------------------------------
(* Bounds of the model *)

MaxFrames == 3      \* frames the backend thread publishes in a behaviour
MaxQueue == 2       \* messages waiting in the result channel
MaxRow == 1         \* highest GPU-cache row (address.v) of a single update call

(* Program constants *)

MAX_VERTEX_TEXTURE_WIDTH == 1024
BLOCKS_PER_UV_RECT == 2
min_texture_size == 512

----------------------------------------------------------------------------
(* Option<T> *)

None == <<>>
Some(x) == <<x>>
IsSome(o) == Len(o) = 1
Unwrap(o) == o[1]

----------------------------------------------------------------------------
(* GpuBlockData: a block of 4 floats, abstracted to a number; EMPTY and the *)
(* zero block [0f32; 4] are the same value.                                 *)

EMPTY == 0

(* A Vec<GpuBlockData> is kept as its length and the set of <<index, value>> *)
(* pairs of its entries that differ from EMPTY.                              *)

VecNew == [len |-> 0, nz |-> {}]

VecGet(v, i) ==
    IF \E p \in v.nz : p[1] = i
        THEN (CHOOSE p \in v.nz : p[1] = i)[2]
        ELSE EMPTY

\* Vec::extend_from_slice(&[GpuBlockData::EMPTY; n])
VecExtendEmpty(v, n) == [v EXCEPT !.len = @ + n]

\* data[i] = src[first + i] for i in 0 .. count, data = v[offset .. offset + count]
VecCopyFrom(v, offset, src, first, count) ==
    [v EXCEPT !.nz =
        {p \in @ : p[1] < offset \/ p[1] >= offset + count}
        \cup {<<offset + i, src[first + i + 1]>> :
                i \in {j \in 0 .. count - 1 : src[first + j + 1] # EMPTY}}]

\* the slice v[first .. first + count] as a sequence of blocks
VecSlice(v, first, count) == [i \in 1 .. count |-> VecGet(v, first + i - 1)]

----------------------------------------------------------------------------
(* CacheRow / CacheTexture with the PixelBuffer bus *)

\* CacheRow::new with the row born dirty
CacheRow_new_dirty == [is_dirty |-> TRUE]

CacheRow_new == [is_dirty |-> FALSE]

CacheTexture_new == [rows |-> <<>>, cpu_blocks |-> VecNew]

CacheTexture_get_height == 1024

\* grow_rows that adds one block too few for each new row
RECURSIVE grow_rows_short(_, _)
grow_rows_short(ct, row) ==
    IF Len(ct.rows) <= row
        THEN grow_rows_short([ct EXCEPT
                !.rows = Append(@, CacheRow_new),
                !.cpu_blocks = VecExtendEmpty(@, MAX_VERTEX_TEXTURE_WIDTH - 1)], row)
        ELSE ct

\* while rows.len() <= row { rows.push(CacheRow::new()); cpu_blocks.extend(..) }
RECURSIVE grow_rows(_, _)
grow_rows(ct, row) ==
    IF Len(ct.rows) <= row
        THEN grow_rows([ct EXCEPT
                !.rows = Append(@, CacheRow_new),
                !.cpu_blocks = VecExtendEmpty(@, MAX_VERTEX_TEXTURE_WIDTH)], row)
        ELSE ct

\* apply_copy with the mirror resized to the addressed row instead of grown
apply_copy_resizing(ct, blocks, update) ==
    LET row == update.address.v
        g == grow_rows(ct, row)
        t == [g EXCEPT
                !.rows = SubSeq(@, 1, row + 1),
                !.cpu_blocks = [len |-> (row + 1) * MAX_VERTEX_TEXTURE_WIDTH,
                                nz |-> {p \in @.nz :
                                          p[1] < (row + 1) * MAX_VERTEX_TEXTURE_WIDTH}]]
        d == [t EXCEPT !.rows[row + 1].is_dirty = TRUE]
        block_offset == row * MAX_VERTEX_TEXTURE_WIDTH + update.address.u
    IN  IF block_offset + update.block_count > d.cpu_blocks.len
           \/ (update.block_count > 0
               /\ update.block_index + update.block_count > Len(blocks))
            THEN [ct |-> d, panicked |-> TRUE]
            ELSE [ct |-> [d EXCEPT !.cpu_blocks =
                            VecCopyFrom(@, block_offset, blocks,
                                        update.block_index, update.block_count)],
                  panicked |-> FALSE]

\* One GpuCacheUpdate::Copy applied to the mirror.  The result is
\* [ct, panicked]: the slice cpu_blocks[block_offset .. block_offset + count]
\* and the reads updates.blocks[block_index + i] are bounds-checked.
apply_copy(ct, blocks, update) ==
    LET row == update.address.v
        g == grow_rows(ct, row)
        d == [g EXCEPT !.rows[row + 1].is_dirty = TRUE]
        block_offset == row * MAX_VERTEX_TEXTURE_WIDTH + update.address.u
    IN  IF block_offset + update.block_count > d.cpu_blocks.len
           \/ (update.block_count > 0
               /\ update.block_index + update.block_count > Len(blocks))
            THEN [ct |-> d, panicked |-> TRUE]
            ELSE [ct |-> [d EXCEPT !.cpu_blocks =
                            VecCopyFrom(@, block_offset, blocks,
                                        update.block_index, update.block_count)],
                  panicked |-> FALSE]

\* CacheTexture::update: every update of the list, in order
RECURSIVE CacheTexture_update_from(_, _, _)
CacheTexture_update_from(ct, updates, i) ==
    IF i > Len(updates.updates)
        THEN [ct |-> ct, panicked |-> FALSE]
        ELSE LET s == apply_copy(ct, updates.blocks, updates.updates[i])
             IN  IF s.panicked THEN s
                 ELSE CacheTexture_update_from(s.ct, updates, i + 1)

CacheTexture_update(ct, updates) == CacheTexture_update_from(ct, updates, 1)

\* the rows that CacheTexture::flush uploads, as 0-based row indices in order
DirtyRows(ct) == {i \in 0 .. Len(ct.rows) - 1 : ct.rows[i + 1].is_dirty}

RECURSIVE SetToSortedSeq(_)
SetToSortedSeq(S) ==
    IF S = {} THEN <<>>
    ELSE LET m == CHOOSE x \in S : \A y \in S : x <= y
         IN  <<m>> \o SetToSortedSeq(S \ {m})

\* CacheTexture_flush that uploads the dirty rows and leaves them dirty
CacheTexture_flush_keeping(ct) ==
    LET dirty == SetToSortedSeq(DirtyRows(ct))
    IN  [ct |-> ct,
         uploads |-> [k \in 1 .. Len(dirty) |->
                        [y |-> dirty[k],
                         width |-> MAX_VERTEX_TEXTURE_WIDTH,
                         nz |-> {p \in ct.cpu_blocks.nz :
                                    /\ p[1] >= dirty[k] * MAX_VERTEX_TEXTURE_WIDTH
                                    /\ p[1] < dirty[k] * MAX_VERTEX_TEXTURE_WIDTH
                                                + MAX_VERTEX_TEXTURE_WIDTH}]],
         rows_dirty |-> Len(dirty)]

\* CacheTexture_flush that uploads every row of the mirror
CacheTexture_flush_all(ct) ==
    [ct |-> [ct EXCEPT !.rows = [i \in 1 .. Len(ct.rows) |-> [is_dirty |-> FALSE]]],
     uploads |-> [k \in 1 .. Len(ct.rows) |->
                    [y |-> k - 1,
                     width |-> MAX_VERTEX_TEXTURE_WIDTH,
                     nz |-> {p \in ct.cpu_blocks.nz :
                                /\ p[1] >= (k - 1) * MAX_VERTEX_TEXTURE_WIDTH
                                /\ p[1] < k * MAX_VERTEX_TEXTURE_WIDTH}]],
     rows_dirty |-> Len(ct.rows)]

\* CacheTexture::flush: [ct, uploads, rows_dirty]; an upload is the rect's
\* row and the full-width slice of the mirror handed to the device
CacheTexture_flush(ct) ==
    LET dirty == SetToSortedSeq(DirtyRows(ct))
    IN  [ct |-> [ct EXCEPT !.rows = [i \in 1 .. Len(ct.rows) |-> [is_dirty |-> FALSE]]],
         uploads |-> [k \in 1 .. Len(dirty) |->
                        [y |-> dirty[k],
                         width |-> MAX_VERTEX_TEXTURE_WIDTH,
                         nz |-> {p \in ct.cpu_blocks.nz :
                                    /\ p[1] >= dirty[k] * MAX_VERTEX_TEXTURE_WIDTH
                                    /\ p[1] < dirty[k] * MAX_VERTEX_TEXTURE_WIDTH
                                                + MAX_VERTEX_TEXTURE_WIDTH}]],
         rows_dirty |-> Len(dirty)]


----------------------------------------------------------------------------
(* The frames the backend thread builds.  A frame is identified by fid, the *)
(* order number of its PublishDocument; its layer is the DocumentLayer of   *)
(* the document it was built for.                                           *)

DocumentIds == {1, 2}
DocumentLayer == [d \in DocumentIds |-> IF d = 1 THEN 1 ELSE 0]

PipelineIds == {1}
ExternalImageKeys == {<<1, 0>>, <<2, 0>>}    \* (ExternalImageId, channel_index)

GpuCacheAddress(u, v) == [u |-> u, v |-> v]

DeferredResolve(key, address) ==
    [id |-> key[1], channel_index |-> key[2],
     image_type |-> "TextureHandle", address |-> address]

\* a color target; needs_depth is RenderTarget::needs_depth(), true when the
\* target has opaque batches
ColorRenderTarget(outputs) == [outputs |-> outputs, needs_depth |-> FALSE]
DepthColorRenderTarget(needs_depth) == [outputs |-> <<>>, needs_depth |-> needs_depth]

\* DeviceUintRect::new(origin, size)
DeviceUintRect(x, y, width, height) ==
    [x |-> x, y |-> y, width |-> width, height |-> height]

\* TypedRect::intersects
rect_intersects(a, b) ==
    /\ a.x < b.x + b.width
    /\ b.x < a.x + a.width
    /\ a.y < b.y + b.height
    /\ b.y < a.y + a.height

\* the size render() is given, and the rect of a frame that fills it
FramebufferSize == [width |-> 4, height |-> 4]
FullRect == DeviceUintRect(0, 0, FramebufferSize.width, FramebufferSize.height)
AlphaRenderTarget == [zero_clears |-> <<>>]

MainFramebuffer(target) == [kind |-> "MainFramebuffer", target |-> target]
OffScreen(alpha, color, texture_cache) ==
    [kind |-> "OffScreen",
     alpha |-> [targets |-> alpha],
     color |-> [targets |-> color],
     texture_cache |-> texture_cache]

Copy(block_index, block_count, address) ==
    [block_index |-> block_index, block_count |-> block_count, address |-> address]

\* document 1 is a plain page, document 2 shows video through external images
\* and renders to off-screen targets
DocumentShape == [d \in DocumentIds |-> IF d = 1 THEN "simple" ELSE "video"]

FramePasses(shape) ==
    CASE shape = "simple" -> <<MainFramebuffer(ColorRenderTarget(<<>>))>>
      [] shape = "video"  ->
            <<OffScreen(<<AlphaRenderTarget>>, <<ColorRenderTarget(<<1>>)>>,
                        <<[texture_id |-> 0, target_index |-> 0]>>),
              MainFramebuffer(ColorRenderTarget(<<>>))>>
      [] OTHER -> <<>>

FrameDeferredResolves(shape) ==
    CASE shape = "simple" -> <<DeferredResolve(<<1, 0>>, GpuCacheAddress(0, 0))>>
      [] shape = "video"  -> <<DeferredResolve(<<1, 0>>, GpuCacheAddress(2, 0)),
                               DeferredResolve(<<2, 0>>, GpuCacheAddress(4, 0)),
                               DeferredResolve(<<1, 0>>, GpuCacheAddress(6, 0))>>
      [] OTHER -> <<>>

FrameGpuCacheUpdates(shape) ==
    CASE shape = "simple" ->
            Some([height |-> 2, blocks |-> <<1>>,
                  updates |-> <<Copy(0, 1, GpuCacheAddress(8, 1))>>])
      [] shape = "video" ->
            Some([height |-> 2048, blocks |-> <<2, 3>>,
                  updates |-> <<Copy(0, 2, GpuCacheAddress(1022, 2))>>])
      [] shape = "empty_gpu" ->
            Some([height |-> 1, blocks |-> <<4>>,
                  updates |-> <<Copy(0, 1, GpuCacheAddress(3, 0))>>])
      [] OTHER -> None

\* the texture-cache operations that accompany a frame
\* the cache texture of a video frame has the format of every texture of
\* Device::create_texture
FrameTextureUpdates(shape) ==
    IF shape = "video"
        THEN <<[id |-> 0, op |-> "Create", format |-> "Invalid"]>>
        ELSE <<>>

\* the GpuCacheUpdateList of frame fid; h_fid names the frame it arrived with
FrameUpdateList(fid, list) ==
    IF IsSome(list)
        THEN Some([height |-> Unwrap(list).height, blocks |-> Unwrap(list).blocks,
                   updates |-> Unwrap(list).updates, h_fid |-> fid])
        ELSE None

Frame(fid, document_id, shape) ==
    [fid |-> fid,
     layer |-> DocumentLayer[document_id],
     passes |-> FramePasses(shape),
     has_texture_cache_tasks |->
        \E i \in 1 .. Len(FramePasses(shape)) :
            /\ FramePasses(shape)[i].kind = "OffScreen"
            /\ FramePasses(shape)[i].texture_cache # <<>>,
     has_been_rendered |-> FALSE,
     h_drawn |-> FALSE,
     inner_rect |-> FullRect,
     background_color |-> None,
     deferred_resolves |-> FrameDeferredResolves(shape),
     gpu_cache_updates |-> FrameUpdateList(fid, FrameGpuCacheUpdates(shape))]

\* Frame::must_be_drawn: the frame has texture-cache tasks not drawn yet
must_be_drawn(frame) == frame.has_texture_cache_tasks /\ ~frame.has_been_rendered

PublishDocument(document_id, frame, texture_update_list) ==
    [type |-> "PublishDocument", document_id |-> document_id,
     doc |-> [frame |-> frame], texture_update_list |-> texture_update_list]

UpdateResources(updates, cancel_rendering) ==
    [type |-> "UpdateResources", updates |-> updates,
     cancel_rendering |-> cancel_rendering]

----------------------------------------------------------------------------
(* What the embedder's handlers answer during one call: lock of an external *)
(* image gives a source per key, lock of a frame output succeeds for the    *)
(* pipelines of out.                                                        *)

AllNative == [k \in ExternalImageKeys |-> "NativeTexture"]

Envs ==
    {[ext |-> AllNative, out |-> PipelineIds],
     [ext |-> [AllNative EXCEPT ![<<1, 0>>] = "Invalid"], out |-> PipelineIds],
     [ext |-> AllNative, out |-> {}]}

\* ExternalImageHandler::lock
ExternalImage_lock(env, key) ==
    [uv |-> 10 + key[1],
     source |-> env.ext[key],
     texture_id |-> IF env.ext[key] = "NativeTexture" THEN 100 + key[1] ELSE 0]

----------------------------------------------------------------------------
(* The renderer.  Every operator below takes the renderer record r and      *)
(* returns it as the code leaves it.  r.log is the sequence of calls the    *)
(* current update() or render() has made on the device and on the           *)
(* embedder's handlers; r.panicked records a failed assert / expect /       *)
(* bounds check, after which nothing more happens.  The h_ fields are       *)
(* history: they record what has happened and influence nothing, as does    *)
(* the field h_drawn of a frame (some target of the frame has been drawn).  *)
(* local_documents and deferred_update_list hold the local variables       *)
(* active_documents of render_impl and deferred_update_list of             *)
(* prepare_gpu_cache while these run.                                      *)

RendererStats_empty ==
    [total_draw_calls |-> 0, alpha_target_count |-> 0, color_target_count |-> 0]

Renderer_new ==
    [active_documents |-> <<>>,
     pending_texture_updates |-> <<>>,
     pending_gpu_cache_updates |-> <<>>,
     gpu_cache_texture |-> CacheTexture_new,
     cache_texture_map |-> <<>>,
     external_images |-> {},
     external_image_handler |-> FALSE,
     output_image_handler |-> FALSE,
     renderer_errors |-> <<>>,
     resource_cache |-> {},
     stats |-> RendererStats_empty,
     log |-> <<>>,
     panicked |-> FALSE,
     local_documents |-> <<>>,
     deferred_update_list |-> None,
     framebuffer_depth_is_ready |-> FALSE,
     last_call |-> "new",
     last_result |-> None,
     h_errors_at_end |-> <<>>,
     h_superseded |-> {},
     h_superseded_drawn |-> {},
     h_cancelled |-> {},
     h_drawn_after_cancel |-> {}]

Emit(r, e) == [r EXCEPT !.log = Append(@, e)]

Panic(r) == [r EXCEPT !.panicked = TRUE]

\* one target of a frame is drawn: kind is "texture_cache", "alpha", "color"
\* (an off-screen color target) or "main" (the main framebuffer)
EmitDraw(r, frame, pass_index, kind, target_index) ==
    [r EXCEPT
        !.log = Append(@, [op |-> "draw", fid |-> frame.fid, layer |-> frame.layer,
                           pass |-> pass_index, target |-> kind,
                           index |-> target_index]),
        !.h_superseded_drawn =
            @ \cup (IF frame.fid \in r.h_superseded THEN {<<frame.fid, kind>>} ELSE {}),
        !.h_drawn_after_cancel =
            @ \cup (IF frame.fid \in r.h_cancelled THEN {frame.fid} ELSE {})]

----------------------------------------------------------------------------
(* Device textures.  A Texture carries an id, which the program does not   *)
(* have: it stands for the identity of the object and is read by the       *)
(* properties only.                                                        *)

\* Device::create_texture: the argument is not stored, the format is Invalid
Device_create_texture(id) ==
    [id |-> id, width |-> 0, height |-> 0, layer_count |-> 0, format |-> "Invalid"]

\* Device::init_texture(texture, width, height, filter, render_target, layer_count, pixels)
Device_init_texture(texture, width, height, layer_count) ==
    [texture EXCEPT !.width = width, !.height = height, !.layer_count = layer_count]

Texture_get_dimensions(texture) == [width |-> texture.width, height |-> texture.height]
Texture_get_render_target_layer_count(texture) == 0
Texture_get_format(texture) == texture.format

----------------------------------------------------------------------------
(* Renderer::update_texture_cache *)

apply_texture_update(r, update) ==
    LET index == update.id
        len == Len(r.cache_texture_map)
    IN  CASE update.op = "Create" ->
                LET map == IF len = index
                               THEN Append(r.cache_texture_map,
                                           [format |-> Texture_get_format(
                                                            Device_create_texture(index)),
                                            allocated |-> FALSE])
                               ELSE r.cache_texture_map
                IN  IF index >= Len(map) \/ map[index + 1].format # update.format
                        THEN Panic(r)
                        ELSE Emit([r EXCEPT !.cache_texture_map =
                                        [map EXCEPT ![index + 1].allocated = TRUE]],
                                  [op |-> "init_texture", id |-> index])
          [] update.op = "Update" ->
                IF index >= len THEN Panic(r)
                ELSE Emit(r, [op |-> "upload_texture", id |-> index])
          [] update.op = "Free" ->
                IF index >= len THEN Panic(r)
                ELSE Emit([r EXCEPT !.cache_texture_map[index + 1].allocated = FALSE],
                          [op |-> "free_texture_storage", id |-> index])

RECURSIVE apply_texture_updates(_, _, _)
apply_texture_updates(r, updates, i) ==
    IF r.panicked \/ i > Len(updates) THEN r
    ELSE apply_texture_updates(apply_texture_update(r, updates[i]), updates, i + 1)

RECURSIVE apply_texture_update_lists(_, _, _)
apply_texture_update_lists(r, lists, i) ==
    IF r.panicked \/ i > Len(lists) THEN r
    ELSE apply_texture_update_lists(apply_texture_updates(r, lists[i], 1), lists, i + 1)

update_texture_cache(r) ==
    apply_texture_update_lists([r EXCEPT !.pending_texture_updates = <<>>],
                               r.pending_texture_updates, 1)

----------------------------------------------------------------------------
(* Renderer::update_deferred_resolves: the Option<GpuCacheUpdateList> that  *)
(* patches the UV rects is left in r.deferred_update_list.                  *)

\* FastHashMap::insert on external_images, a set of [key, texture] entries
external_images_insert(map, key, texture) ==
    {e \in map : e.key # key} \cup {[key |-> key, texture |-> texture]}

\* the texture registered for a locked image; RawData is not expected here
resolve_external_source(image) ==
    CASE image.source = "NativeTexture" -> Some(image.texture_id)
      [] image.source = "Invalid" -> Some(0)
      [] image.source = "RawData" -> None

\* deferred_resolve_step that leaves the UV rect of an Invalid image unpatched
deferred_resolve_step_skipping(s, deferred_resolve, env) ==
    LET key == <<deferred_resolve.id, deferred_resolve.channel_index>>
        image == ExternalImage_lock(env, key)
        locked == Emit(s.r, [op |-> "lock", key |-> key, source |-> image.source])
        texture == resolve_external_source(image)
        inserted == Emit([locked EXCEPT !.external_images =
                            external_images_insert(@, key, Unwrap(texture))],
                         [op |-> "external_images_insert", key |-> key,
                          texture |-> Unwrap(texture)])
    IN  IF deferred_resolve.image_type # "TextureHandle" \/ ~IsSome(texture)
            THEN [r |-> Panic(locked), list |-> s.list]
        ELSE IF image.source = "Invalid"
            THEN [r |-> inserted, list |-> s.list]
            ELSE [r |-> inserted,
                  list |-> [s.list EXCEPT
                        !.updates = Append(@, Copy(Len(s.list.blocks), BLOCKS_PER_UV_RECT,
                                                   deferred_resolve.address)),
                        !.blocks = @ \o <<image.uv, 0>>]]

deferred_resolve_step(s, deferred_resolve, env) ==
    LET key == <<deferred_resolve.id, deferred_resolve.channel_index>>
        image == ExternalImage_lock(env, key)
        locked == Emit(s.r, [op |-> "lock", key |-> key, source |-> image.source])
        texture == resolve_external_source(image)
    IN  IF deferred_resolve.image_type # "TextureHandle" \/ ~IsSome(texture)
            THEN [r |-> Panic(locked), list |-> s.list]
            ELSE [r |-> Emit([locked EXCEPT !.external_images =
                                external_images_insert(@, key, Unwrap(texture))],
                             [op |-> "external_images_insert", key |-> key,
                              texture |-> Unwrap(texture)]),
                  list |-> [s.list EXCEPT
                        !.updates = Append(@, Copy(Len(s.list.blocks), BLOCKS_PER_UV_RECT,
                                                   deferred_resolve.address)),
                        !.blocks = @ \o <<image.uv, 0>>]]

RECURSIVE deferred_resolve_loop(_, _, _, _)
deferred_resolve_loop(s, deferred_resolves, i, env) ==
    IF s.r.panicked \/ i > Len(deferred_resolves) THEN s
    ELSE deferred_resolve_loop(deferred_resolve_step(s, deferred_resolves[i], env),
                               deferred_resolves, i + 1, env)

\* Some(list)
return_list(s) == [s.r EXCEPT !.deferred_update_list = Some(s.list)]

update_deferred_resolves(r, deferred_resolves, env) ==
    IF deferred_resolves = <<>> THEN [r EXCEPT !.deferred_update_list = None]
    ELSE IF ~r.external_image_handler THEN Panic(r)
    ELSE return_list(deferred_resolve_loop(
            [r |-> r,
             list |-> [height |-> CacheTexture_get_height,
                       blocks |-> <<>>, updates |-> <<>>]],
            deferred_resolves, 1, env))

\* Renderer::unlock_external_images: the map is drained, one unlock per key
RECURSIVE unlock_keys(_, _)
unlock_keys(r, keys) ==
    IF keys = {} THEN r
    ELSE LET k == CHOOSE x \in keys : \A y \in keys :
                        x[1] < y[1] \/ (x[1] = y[1] /\ x[2] <= y[2])
         IN  unlock_keys(Emit(r, [op |-> "unlock", key |-> k]), keys \ {k})

unlock_external_images(r) ==
    IF r.panicked \/ r.external_images = {} THEN r
    ELSE IF ~r.external_image_handler THEN Panic(r)
    ELSE unlock_keys([r EXCEPT !.external_images = {}],
                     {e.key : e \in r.external_images})

----------------------------------------------------------------------------
(* Renderer::prepare_gpu_cache *)

Max(a, b) == IF a >= b THEN a ELSE b

\* the fold with the height of the texture as it is, whatever the lists request
max_requested_height_current(lists, i, height) == height

\* .fold((0, gpu_cache_height), |(count, height), list| (.., cmp::max(height, list.height)))
RECURSIVE max_requested_height(_, _, _)
max_requested_height(lists, i, height) ==
    IF i > Len(lists) THEN height
    ELSE max_requested_height(lists, i + 1, Max(height, lists[i].height))

\* for update_list in pending_gpu_cache_updates.drain(..)
RECURSIVE apply_gpu_cache_updates(_, _, _, _)
apply_gpu_cache_updates(r, lists, i, max_height) ==
    IF r.panicked \/ i > Len(lists) THEN r
    ELSE IF ~(lists[i].height <= max_height)
        THEN Panic(Emit(r, [op |-> "assert_height_failed", list |-> lists[i]]))
    ELSE LET s == CacheTexture_update(r.gpu_cache_texture, lists[i])
         IN  apply_gpu_cache_updates(
                Emit([r EXCEPT !.gpu_cache_texture = s.ct,
                               !.panicked = s.panicked],
                     [op |-> "gpu_cache_update", list |-> lists[i]]),
                lists, i + 1, max_height)

\* Device::update_resource_cache: one row of the GPU texture is overwritten
RECURSIVE upload_rows(_, _, _)
upload_rows(r, uploads, i) ==
    IF i > Len(uploads) THEN r
    ELSE LET up == uploads[i]
             first == up.y * MAX_VERTEX_TEXTURE_WIDTH
         IN  upload_rows(
                Emit([r EXCEPT !.resource_cache =
                        {p \in @ : p[1] < first \/ p[1] >= first + up.width}
                        \cup up.nz],
                     [op |-> "update_resource_cache", y |-> up.y, width |-> up.width]),
                uploads, i + 1)

\* self.gpu_cache_texture.flush(&mut self.device)
flush_gpu_cache(r) ==
    IF r.panicked THEN r
    ELSE LET f == CacheTexture_flush(r.gpu_cache_texture)
         IN  upload_rows(Emit([r EXCEPT !.gpu_cache_texture = f.ct],
                              [op |-> "gpu_cache_flush", rows_dirty |-> f.rows_dirty]),
                         f.uploads, 1)

\* self.pending_gpu_cache_updates.extend(deferred_update_list)
extend_pending_gpu_cache_updates(r) ==
    IF r.panicked THEN r
    ELSE [r EXCEPT !.pending_gpu_cache_updates = @ \o r.deferred_update_list,
                   !.deferred_update_list = None]

\* the fold over the pending lists, prepare_for_updates and the drain
drain_pending_gpu_cache_updates(r) ==
    IF r.panicked THEN r
    ELSE LET max_height == max_requested_height(r.pending_gpu_cache_updates, 1,
                                                CacheTexture_get_height)
         IN  apply_gpu_cache_updates(
                Emit([r EXCEPT !.pending_gpu_cache_updates = <<>>],
                     [op |-> "prepare_for_updates", max_height |-> max_height,
                      h_pending |-> r.pending_gpu_cache_updates]),
                r.pending_gpu_cache_updates, 1, max_height)

prepare_gpu_cache(r, frame, env) ==
    flush_gpu_cache(
        drain_pending_gpu_cache_updates(
            extend_pending_gpu_cache_updates(
                update_deferred_resolves(
                    Emit(r, [op |-> "prepare_gpu_cache", fid |-> frame.fid]),
                    frame.deferred_resolves, env))))

----------------------------------------------------------------------------
(* Renderer::draw_color_target, draw_alpha_target, draw_texture_cache_target *)

\* output_step that unlocks whatever lock() returned
output_step_unlocking(r, output, env) ==
    IF ~r.output_image_handler THEN Panic(r)
    ELSE IF output \in env.out
        THEN Emit(Emit(Emit(r,
                [op |-> "output_lock", pipeline_id |-> output, locked |-> TRUE]),
                [op |-> "blit_render_target", pipeline_id |-> output]),
                [op |-> "output_unlock", pipeline_id |-> output])
        ELSE Emit(Emit(r,
                [op |-> "output_lock", pipeline_id |-> output, locked |-> FALSE]),
                [op |-> "output_unlock", pipeline_id |-> output])

\* the frame outputs registered on a color target
output_step(r, output, env) ==
    IF ~r.output_image_handler THEN Panic(r)
    ELSE IF output \in env.out
        THEN Emit(Emit(Emit(r,
                [op |-> "output_lock", pipeline_id |-> output, locked |-> TRUE]),
                [op |-> "blit_render_target", pipeline_id |-> output]),
                [op |-> "output_unlock", pipeline_id |-> output])
        ELSE Emit(r, [op |-> "output_lock", pipeline_id |-> output, locked |-> FALSE])

RECURSIVE output_loop(_, _, _, _)
output_loop(r, outputs, i, env) ==
    IF r.panicked \/ i > Len(outputs) THEN r
    ELSE output_loop(output_step(r, outputs[i], env), outputs, i + 1, env)

\* Texture::has_depth
Texture_has_depth == FALSE

\* Device::clear_target(color, _depth, rect): the color is cleared when one
\* is given; the depth argument is not used, the depth buffer is left as it
\* is.  color and depth are what the caller asked for, depth_cleared what
\* the device did
Device_clear_target(r, target, fid, color, depth) ==
    Emit(r, [op |-> "clear_target", target |-> target, fid |-> fid,
             color |-> color, depth |-> depth, depth_cleared |-> FALSE])

\* the head of draw_color_target: the sanity check of an off-screen target's
\* texture, then clear_target(clear_color, depth_clear, clear_rect) with
\* depth_clear = !depth_is_ready && target.needs_depth(); depth_is_ready is
\* framebuffer_depth_is_ready for the main framebuffer and false otherwise
clear_color_target(r, frame, kind, target) ==
    IF kind # "main" /\ target.needs_depth /\ ~Texture_has_depth THEN Panic(r)
    ELSE Device_clear_target(r, kind, frame.fid,
                             kind # "main" \/ IsSome(frame.background_color),
                             /\ ~(kind = "main" /\ r.framebuffer_depth_is_ready)
                             /\ target.needs_depth)

draw_color_target(r, frame, pass_index, kind, target_index, target, env) ==
    IF r.panicked THEN r
    ELSE output_loop(EmitDraw(clear_color_target(r, frame, kind, target),
                              frame, pass_index, kind, target_index),
                     target.outputs, 1, env)

draw_alpha_target(r, frame, pass_index, target_index, target) ==
    EmitDraw(r, frame, pass_index, "alpha", target_index)

draw_texture_cache_target(r, frame, pass_index, target_index) ==
    EmitDraw(r, frame, pass_index, "texture_cache", target_index)

RECURSIVE draw_texture_cache_targets(_, _, _, _, _)
draw_texture_cache_targets(r, frame, pass_index, targets, i) ==
    IF r.panicked \/ i > Len(targets) THEN r
    ELSE draw_texture_cache_targets(
            draw_texture_cache_target(r, frame, pass_index, i - 1),
            frame, pass_index, targets, i + 1)

RECURSIVE draw_alpha_targets(_, _, _, _, _)
draw_alpha_targets(r, frame, pass_index, targets, i) ==
    IF r.panicked \/ i > Len(targets) THEN r
    ELSE draw_alpha_targets(
            draw_alpha_target([r EXCEPT !.stats.alpha_target_count = @ + 1],
                              frame, pass_index, i - 1, targets[i]),
            frame, pass_index, targets, i + 1)

RECURSIVE draw_color_targets(_, _, _, _, _, _)
draw_color_targets(r, frame, pass_index, targets, i, env) ==
    IF r.panicked \/ i > Len(targets) THEN r
    ELSE draw_color_targets(
            draw_color_target([r EXCEPT !.stats.color_target_count = @ + 1],
                              frame, pass_index, "color", i - 1, targets[i], env),
            frame, pass_index, targets, i + 1, env)

----------------------------------------------------------------------------
(* Renderer::draw_tile_frame on the frame of local_documents[i].            *)
(* framebuffer is TRUE when framebuffer_size is Some.                       *)

\* draw_pass that draws the texture-cache targets on every draw
draw_pass_every_time(r, frame, pass_index, pass, framebuffer, env) ==
    IF pass.kind = "MainFramebuffer"
        THEN IF framebuffer
                THEN draw_color_target([r EXCEPT !.stats.color_target_count = @ + 1],
                                       frame, pass_index, "main", 0, pass.target, env)
                ELSE r
        ELSE draw_color_targets(
                draw_alpha_targets(
                    draw_texture_cache_targets(r, frame, pass_index,
                                               pass.texture_cache, 1),
                    frame, pass_index, pass.alpha.targets, 1),
                frame, pass_index, pass.color.targets, 1, env)

draw_pass(r, frame, pass_index, pass, framebuffer, env) ==
    IF pass.kind = "MainFramebuffer"
        THEN IF framebuffer
                THEN draw_color_target([r EXCEPT !.stats.color_target_count = @ + 1],
                                       frame, pass_index, "main", 0, pass.target, env)
                ELSE r
        ELSE LET tc == IF ~frame.has_been_rendered
                           THEN draw_texture_cache_targets(r, frame, pass_index,
                                                           pass.texture_cache, 1)
                           ELSE r
                 al == draw_alpha_targets(tc, frame, pass_index, pass.alpha.targets, 1)
             IN  draw_color_targets(al, frame, pass_index, pass.color.targets, 1, env)

RECURSIVE draw_passes(_, _, _, _, _)
draw_passes(r, frame, i, framebuffer, env) ==
    IF r.panicked \/ i > Len(frame.passes) THEN r
    ELSE draw_passes(draw_pass(r, frame, i - 1, frame.passes[i], framebuffer, env),
                     frame, i + 1, framebuffer, env)

\* frame.has_been_rendered = true; calls is the length of the log when
\* draw_tile_frame began
set_has_been_rendered(r, i, calls) ==
    IF r.panicked THEN r
    ELSE [r EXCEPT !.local_documents[i].frame =
            [@ EXCEPT !.has_been_rendered = TRUE,
                      !.h_drawn = @ \/ \E k \in calls + 1 .. Len(r.log) :
                                            r.log[k].op = "draw"]]

\* draw_tile_frame that returns at once for an empty pass list
draw_tile_frame_unmarked(r, i, framebuffer, env) ==
    IF r.panicked THEN r
    ELSE IF r.local_documents[i].frame.passes = <<>>
        THEN r
        ELSE set_has_been_rendered(
                draw_passes(r, r.local_documents[i].frame, 1, framebuffer, env),
                i, Len(r.log))

draw_tile_frame(r, i, framebuffer, env) ==
    IF r.panicked THEN r
    ELSE IF r.local_documents[i].frame.passes = <<>>
        THEN set_has_been_rendered(r, i, Len(r.log))
        ELSE set_has_been_rendered(
                draw_passes(r, r.local_documents[i].frame, 1, framebuffer, env),
                i, Len(r.log))

----------------------------------------------------------------------------
(* Renderer::render_impl *)

\* Vec::sort_by_key(|doc| doc.frame.layer): a stable sort, by insertion
RECURSIVE insert_by_layer(_, _)
insert_by_layer(sorted, entry) ==
    IF sorted = <<>> THEN <<entry>>
    ELSE IF sorted[Len(sorted)].frame.layer <= entry.frame.layer
        THEN Append(sorted, entry)
        ELSE Append(insert_by_layer(SubSeq(sorted, 1, Len(sorted) - 1), entry),
                    sorted[Len(sorted)])

RECURSIVE sort_from(_, _, _)
sort_from(sorted, docs, i) ==
    IF i > Len(docs) THEN sorted
    ELSE sort_from(insert_by_layer(sorted, docs[i]), docs, i + 1)

\* sort_by_layer that keeps the order of insertion
sort_by_layer_unsorted(docs) == docs

sort_by_layer(docs) == sort_from(<<>>, docs, 1)

\* the loop over the active documents: prepare_gpu_cache, then draw_tile_frame
RECURSIVE draw_documents(_, _, _, _)
draw_documents(r, i, framebuffer, env) ==
    IF r.panicked \/ i > Len(r.local_documents) THEN r
    ELSE draw_documents(
            draw_tile_frame(prepare_gpu_cache(r, r.local_documents[i].frame, env),
                            i, framebuffer, env),
            i + 1, framebuffer, env)

\* render_result with the test on renderer_errors inverted
render_result_inverted(r) ==
    IF r.panicked THEN r
    ELSE IF r.renderer_errors # <<>>
        THEN [r EXCEPT !.last_result = Some([ok |-> TRUE, stats |-> r.stats, errors |-> <<>>]),
                       !.h_errors_at_end = r.renderer_errors]
        ELSE [r EXCEPT !.last_result = Some([ok |-> FALSE, stats |-> RendererStats_empty,
                                             errors |-> r.renderer_errors]),
                       !.renderer_errors = <<>>,
                       !.h_errors_at_end = r.renderer_errors]

\* if self.renderer_errors.is_empty() { Ok(stats) } else { Err(mem::replace(..)) }
render_result(r) ==
    IF r.panicked THEN r
    ELSE IF r.renderer_errors = <<>>
        THEN [r EXCEPT !.last_result = Some([ok |-> TRUE, stats |-> r.stats, errors |-> <<>>]),
                       !.h_errors_at_end = r.renderer_errors]
        ELSE [r EXCEPT !.last_result = Some([ok |-> FALSE, stats |-> RendererStats_empty,
                                             errors |-> r.renderer_errors]),
                       !.renderer_errors = <<>>,
                       !.h_errors_at_end = r.renderer_errors]

\* device.begin_frame() and the stats of the frame
begin_frame(r, framebuffer) ==
    Emit([r EXCEPT !.stats = RendererStats_empty],
         [op |-> "begin_frame", framebuffer |-> framebuffer])

\* mem::replace(&mut self.active_documents, Vec::default()) and the sort
take_active_documents(r) ==
    IF r.panicked THEN r
    ELSE [r EXCEPT !.local_documents = sort_by_layer(r.active_documents),
                   !.active_documents = <<>>]

\* self.active_documents = active_documents; device.end_frame()
end_frame(r) ==
    IF r.panicked THEN r
    ELSE Emit([r EXCEPT !.active_documents = r.local_documents,
                        !.local_documents = <<>>],
              [op |-> "end_frame"])

\* the rects of the documents whose last pass is a main framebuffer target
\* that needs depth, in the order of active_documents
RECURSIVE document_rects(_, _)
document_rects(active_documents, i) ==
    IF i > Len(active_documents) THEN <<>>
    ELSE IF /\ active_documents[i].frame.passes # <<>>
            /\ active_documents[i].frame.passes[
                    Len(active_documents[i].frame.passes)].kind = "MainFramebuffer"
            /\ active_documents[i].frame.passes[
                    Len(active_documents[i].frame.passes)].target.needs_depth
        THEN <<active_documents[i].frame.inner_rect>>
                \o document_rects(active_documents, i + 1)
    ELSE document_rects(active_documents, i + 1)

\* the rects of every document with a main framebuffer target
RECURSIVE document_rects_any_depth(_, _)
document_rects_any_depth(active_documents, i) ==
    IF i > Len(active_documents) THEN <<>>
    ELSE IF /\ active_documents[i].frame.passes # <<>>
            /\ active_documents[i].frame.passes[
                    Len(active_documents[i].frame.passes)].kind = "MainFramebuffer"
        THEN <<active_documents[i].frame.inner_rect>>
                \o document_rects_any_depth(active_documents, i + 1)
    ELSE document_rects_any_depth(active_documents, i + 1)

\* the pairwise scan of are_documents_intersecting_depth
any_intersecting(rects) ==
    \E i \in 1 .. Len(rects) : \E j \in i + 1 .. Len(rects) :
        rect_intersects(rects[i], rects[j])

\* the scan without the needs_depth filter
are_documents_intersecting(r) ==
    any_intersecting(document_rects_any_depth(r.active_documents, 1))

\* Renderer::are_documents_intersecting_depth
are_documents_intersecting_depth(r) ==
    any_intersecting(document_rects(r.active_documents, 1))

\* a frame with a background color covers the whole framebuffer
needs_color_clear(active_documents) ==
    ~\E i \in 1 .. Len(active_documents) :
        /\ IsSome(active_documents[i].frame.background_color)
        /\ active_documents[i].frame.inner_rect = FullRect

\* clear_depth_value and, for a render to the framebuffer, the clear of the
\* whole framebuffer before any document is drawn
clear_framebuffer(r, framebuffer) ==
    IF r.panicked THEN r
    ELSE IF framebuffer /\ (needs_color_clear(r.active_documents)
                            \/ ~are_documents_intersecting_depth(r))
        THEN Device_clear_target(
                [r EXCEPT !.framebuffer_depth_is_ready =
                    ~are_documents_intersecting_depth(r)],
                "framebuffer", 0, needs_color_clear(r.active_documents),
                ~are_documents_intersecting_depth(r))
    ELSE [r EXCEPT !.framebuffer_depth_is_ready = ~are_documents_intersecting_depth(r)]

render_impl(r, framebuffer, env) ==
    IF r.active_documents = <<>>
        THEN [r EXCEPT !.last_result = Some([ok |-> TRUE, stats |-> RendererStats_empty,
                                             errors |-> <<>>]),
                       !.h_errors_at_end = r.renderer_errors]
        ELSE render_result(
                end_frame(
                    unlock_external_images(
                        draw_documents(
                            take_active_documents(
                                clear_framebuffer(
                                    update_texture_cache(begin_frame(r, framebuffer)),
                                    framebuffer)),
                            1, framebuffer, env))))

----------------------------------------------------------------------------
(* Renderer::update: the result channel is drained, message by message *)

\* active_documents.iter().position(|&(id, _)| id == document_id), 0-based
position(active_documents, document_id) ==
    IF \E i \in 1 .. Len(active_documents) : active_documents[i].id = document_id
        THEN Some((CHOOSE i \in 1 .. Len(active_documents) :
                    /\ active_documents[i].id = document_id
                    /\ \A j \in 1 .. i - 1 : active_documents[j].id # document_id) - 1)
        ELSE None

\* render_impl(None).ok(): a render to the off-screen targets only, its
\* result dropped
render_offscreen(r, env) ==
    [render_impl(r, FALSE, env) EXCEPT !.last_result = r.last_result,
                                       !.h_errors_at_end = r.h_errors_at_end]

\* store_document that pushes a new entry whatever active_documents holds
store_document_pushing(r, document_id, doc, env) ==
    [r EXCEPT !.active_documents =
        Append(@, [id |-> document_id, frame |-> doc.frame])]

\* the frame at pos is about to be replaced
note_superseded(r, pos) ==
    [r EXCEPT !.h_superseded =
        @ \cup (IF r.active_documents[pos + 1].frame.h_drawn THEN {}
                ELSE {r.active_documents[pos + 1].frame.fid})]

\* if self.active_documents[pos].1.frame.must_be_drawn() { render_impl(None).ok() }
render_if_must_be_drawn(r, pos, env) ==
    IF must_be_drawn(r.active_documents[pos + 1].frame)
        THEN render_offscreen(r, env)
        ELSE r

\* self.active_documents[pos].1 = doc
replace_document(r, pos, doc) ==
    IF r.panicked THEN r
    ELSE [r EXCEPT !.active_documents[pos + 1].frame = doc.frame]

\* the match on the position of document_id in active_documents
store_document(r, document_id, doc, env) ==
    LET pos == position(r.active_documents, document_id)
    IN  IF IsSome(pos)
            THEN replace_document(
                    render_if_must_be_drawn(note_superseded(r, Unwrap(pos)),
                                            Unwrap(pos), env),
                    Unwrap(pos), doc)
            ELSE [r EXCEPT !.active_documents =
                    Append(@, [id |-> document_id, frame |-> doc.frame])]

update_PublishDocument(r, msg, env) ==
    LET frame == msg.doc.frame
        queued == [r EXCEPT
                    !.pending_texture_updates = Append(@, msg.texture_update_list),
                    !.pending_gpu_cache_updates = @ \o frame.gpu_cache_updates]
    IN  store_document(queued, msg.document_id,
                       [frame |-> [frame EXCEPT !.gpu_cache_updates = None]], env)

\* cancel_rendering that leaves active_documents as it is
cancel_rendering_keeping(r) ==
    [r EXCEPT !.h_cancelled = @ \cup {r.active_documents[i].frame.fid :
                                        i \in 1 .. Len(r.active_documents)}]

\* if cancel_rendering { self.active_documents.clear(); }
cancel_rendering(r) ==
    [r EXCEPT !.active_documents = <<>>,
              !.h_cancelled = @ \cup {r.active_documents[i].frame.fid :
                                        i \in 1 .. Len(r.active_documents)}]

cancel_if(r, flag) ==
    IF r.panicked \/ ~flag THEN r ELSE cancel_rendering(r)

update_UpdateResources(r, msg) ==
    cancel_if(update_texture_cache(
                [r EXCEPT !.pending_texture_updates = Append(@, msg.updates)]),
              msg.cancel_rendering)

RECURSIVE update_loop(_, _, _, _)
update_loop(r, msgs, i, env) ==
    IF r.panicked \/ i > Len(msgs) THEN r
    ELSE update_loop(
            IF msgs[i].type = "PublishDocument"
                THEN update_PublishDocument(r, msgs[i], env)
                ELSE update_UpdateResources(r, msgs[i]),
            msgs, i + 1, env)

update(r, msgs, env) ==
    update_loop([r EXCEPT !.log = <<>>, !.last_call = "update", !.last_result = None,
                          !.stats = RendererStats_empty],
                msgs, 1, env)

\* Renderer::render
render(r, env) ==
    render_impl([r EXCEPT !.log = <<>>, !.last_call = "render"], TRUE, env)

----------------------------------------------------------------------------
(* Renderer::new: the checks on the maximum texture size.  The result is   *)
(* the error, or the size handed to TextureCache::new.                     *)

Min(a, b) == IF a <= b THEN a ELSE b

\* options.max_texture_size.unwrap_or(device_max_size)
unwrap_or(option, default) == IF IsSome(option) THEN Unwrap(option) ELSE default

\* max_device_size without the floor of min_texture_size
max_device_size_unfloored(device_max_size, max_texture_size) ==
    Min(device_max_size, unwrap_or(max_texture_size, device_max_size))

max_device_size(device_max_size, max_texture_size) ==
    Max(Min(device_max_size, unwrap_or(max_texture_size, device_max_size)),
        min_texture_size)

Renderer_new_texture_size(device_max_size, max_texture_size) ==
    IF device_max_size < min_texture_size
        THEN [ok |-> FALSE, error |-> "MaxTextureSize", max_device_size |-> 0]
        ELSE [ok |-> TRUE, error |-> "",
              max_device_size |-> max_device_size(device_max_size, max_texture_size)]

----------------------------------------------------------------------------
(* The render-target pool of SourceTextureResolver *)

DeviceUintSize(width, height) == [width |-> width, height |-> height]

TargetSelector(size, num_layers, format) ==
    [size |-> size, num_layers |-> num_layers, format |-> format]

\* a RenderTargetList with `targets` targets; h_perfect is the id of the
\* texture the perfect-match phase gave it, h_texture the id of the texture it
\* drew into, h_created whether that texture was created for it, h_pool the
\* pool as the search that gave it the texture found it
RenderTargetList(max_size, targets, format) ==
    [max_size |-> max_size, targets |-> targets, format |-> format, texture |-> None,
     h_perfect |-> None, h_texture |-> None, h_created |-> FALSE, h_pool |-> <<>>]

ListSelector(list) == TargetSelector(list.max_size, list.targets, list.format)

\* the passes of a frame as the pool sees them; sources are the SourceTextures
\* the batches of the pass bind
PoolOffScreen(alpha, color) ==
    [kind |-> "OffScreen", alpha |-> alpha, color |-> color, sources |-> {}]
PoolMainFramebuffer == [kind |-> "MainFramebuffer", sources |-> {}]

Sampling(pass, sources) == [pass EXCEPT !.sources = sources]

\* SourceTexture
CacheA8 == [kind |-> "CacheA8"]
CacheRGBA8 == [kind |-> "CacheRGBA8"]
RenderTaskCacheA8(pass_index) == [kind |-> "RenderTaskCacheA8", pass_index |-> pass_index]
RenderTaskCacheRGBA8(pass_index) ==
    [kind |-> "RenderTaskCacheRGBA8", pass_index |-> pass_index]

\* TextureSampler, those the pass loop and the sampled sources use
TextureSamplers == {"Color0", "CacheA8", "CacheRGBA8", "SharedCacheA8"}

SourceTextureResolver_new ==
    [render_target_pool |-> <<>>,
     cache_rgba8_texture |-> None,
     cache_a8_texture |-> None,
     pass_rgba8_textures |-> {},
     pass_a8_textures |-> {},
     passes |-> <<>>,
     next_texture |-> 1,
     panicked |-> FALSE,
     dummy_cache_texture |-> Device_init_texture(Device_create_texture(0), 1, 1, 1),
     samplers |-> [sampler \in TextureSamplers |-> None],
     frames |-> <<>>,
     h_lists |-> {},
     h_returned |-> {},
     h_perfect_phase |-> None,
     h_fallback_phase |-> None,
     h_doc |-> 1,
     h_pass |-> 0,
     h_log |-> <<>>]

\* the trace of a render: what the pool and the device were asked, in order,
\* with the document and pass being worked on
EmitPool(s, e) ==
    [s EXCEPT !.h_log = Append(@, e @@ [doc |-> s.h_doc, pass |-> s.h_pass])]

\* position_selector that settles for the first texture of the pool
position_first(render_target_pool, selector) ==
    IF render_target_pool = <<>> THEN None ELSE Some(0)

\* render_target_pool.iter().position(|texture| selector == TargetSelector {..})
position_selector(render_target_pool, selector) ==
    IF \E i \in 1 .. Len(render_target_pool) :
            selector = TargetSelector(
                Texture_get_dimensions(render_target_pool[i]),
                Texture_get_render_target_layer_count(render_target_pool[i]),
                Texture_get_format(render_target_pool[i]))
        THEN Some((CHOOSE i \in 1 .. Len(render_target_pool) :
                    /\ selector = TargetSelector(
                            Texture_get_dimensions(render_target_pool[i]),
                            Texture_get_render_target_layer_count(render_target_pool[i]),
                            Texture_get_format(render_target_pool[i]))
                    /\ \A j \in 1 .. i - 1 :
                        selector # TargetSelector(
                            Texture_get_dimensions(render_target_pool[j]),
                            Texture_get_render_target_layer_count(render_target_pool[j]),
                            Texture_get_format(render_target_pool[j]))) - 1)
        ELSE None

\* render_target_pool.iter().position(|texture| texture.get_format() == list.format)
position_format(render_target_pool, format) ==
    IF \E i \in 1 .. Len(render_target_pool) :
            Texture_get_format(render_target_pool[i]) = format
        THEN Some((CHOOSE i \in 1 .. Len(render_target_pool) :
                    /\ Texture_get_format(render_target_pool[i]) = format
                    /\ \A j \in 1 .. i - 1 :
                        Texture_get_format(render_target_pool[j]) # format) - 1)
        ELSE None

\* Vec::swap_remove(pos): the last element takes the place of the removed one
swap_remove(vec, pos) ==
    IF pos + 1 = Len(vec) THEN SubSeq(vec, 1, Len(vec) - 1)
    ELSE [SubSeq(vec, 1, Len(vec) - 1) EXCEPT ![pos + 1] = vec[Len(vec)]]

\* the tail of prepare_target_list: init_texture and list.texture = Some(texture)
list_with_texture(list, texture, perfect, created) ==
    [list EXCEPT
        !.texture = Some(Device_init_texture(texture, list.max_size.width,
                                             list.max_size.height, list.targets)),
        !.h_perfect = IF perfect THEN Some(texture.id) ELSE @,
        !.h_texture = Some(texture.id),
        !.h_created = created]

init_list_texture(s, p, which, texture, perfect, created) ==
    [s EXCEPT !.passes[p][which] = list_with_texture(@, texture, perfect, created)]

take_from_pool(s, p, which, pos, perfect) ==
    init_list_texture([s EXCEPT !.render_target_pool = swap_remove(@, pos),
                                !.passes[p][which].h_pool = s.render_target_pool],
                      p, which, s.render_target_pool[pos + 1], perfect, FALSE)

create_for_list(s, p, which) ==
    init_list_texture([s EXCEPT !.next_texture = @ + 1,
                                !.passes[p][which].h_pool = s.render_target_pool],
                      p, which, Device_create_texture(s.next_texture), FALSE, TRUE)

prepare_perfect(s, p, which, index) ==
    IF IsSome(index) THEN take_from_pool(s, p, which, Unwrap(index), TRUE) ELSE s

\* prepare_fallback that gives up when the pool has no texture of the format
prepare_fallback_pool_only(s, p, which, index) ==
    IF IsSome(index) THEN take_from_pool(s, p, which, Unwrap(index), FALSE) ELSE s

prepare_fallback(s, p, which, index) ==
    IF IsSome(index) THEN take_from_pool(s, p, which, Unwrap(index), FALSE)
    ELSE create_for_list(s, p, which)

\* Renderer::prepare_target_list on the list `which` of pass p
\* history: the call of prepare_target_list on the list `which` of pass p
note_prepare_target_list(s, p, which, perfect_only) ==
    EmitPool([s EXCEPT !.h_pass = p - 1],
             [op |-> "prepare_target_list", which |-> which,
              perfect_only |-> perfect_only])

prepare_target_list(s, p, which, perfect_only) ==
    IF s.panicked THEN s
    ELSE IF s.passes[p][which].max_size = DeviceUintSize(0, 0) THEN Panic(s)
    ELSE IF s.passes[p][which].targets = 0 THEN s
    ELSE IF perfect_only
        THEN IF IsSome(s.passes[p][which].texture) THEN Panic(s)
             ELSE prepare_perfect(s, p, which,
                    position_selector(s.render_target_pool,
                                      ListSelector(s.passes[p][which])))
    ELSE IF IsSome(s.passes[p][which].texture) THEN s
    ELSE prepare_fallback(s, p, which,
            position_format(s.render_target_pool, s.passes[p][which].format))

RECURSIVE prepare_pass_lists(_, _, _)
prepare_pass_lists(s, p, perfect_only) ==
    IF p > Len(s.passes) THEN s
    ELSE IF s.passes[p].kind = "OffScreen"
        THEN prepare_pass_lists(
                prepare_target_list(
                    note_prepare_target_list(
                        prepare_target_list(
                            note_prepare_target_list(s, p, "alpha", perfect_only),
                            p, "alpha", perfect_only),
                        p, "color", perfect_only),
                    p, "color", perfect_only),
                p + 1, perfect_only)
    ELSE prepare_pass_lists(s, p + 1, perfect_only)

\* Renderer::prepare_tile_frame: the perfect-match phase
prepare_tile_frame(s) == prepare_pass_lists(s, 1, TRUE)

\* Renderer::bind_frame_data: the fallback phase
bind_frame_data(s) == prepare_pass_lists(s, 1, FALSE)

\* history: the cache slots as begin_frame finds them
note_begin_frame(s) ==
    EmitPool(s, [op |-> "begin_frame", cache_rgba8_texture |-> s.cache_rgba8_texture,
                 cache_a8_texture |-> s.cache_a8_texture])

\* SourceTextureResolver::begin_frame
SourceTextureResolver_begin_frame(s) ==
    IF s.panicked THEN s
    ELSE IF IsSome(s.cache_rgba8_texture) \/ IsSome(s.cache_a8_texture)
        THEN Panic(note_begin_frame(s))
    ELSE [note_begin_frame(s) EXCEPT !.pass_rgba8_textures = {}, !.pass_a8_textures = {}]

\* HashMap::insert
map_insert(map, key, value) == {e \in map : e[1] # key} \cup {<<key, value>>}

\* return_cache_rgba8 that records the texture under the pass that ends
return_cache_rgba8_current_index(s, pass_index) ==
    IF IsSome(s.cache_rgba8_texture)
        THEN EmitPool(
                [s EXCEPT
                    !.pass_rgba8_textures = map_insert(@, pass_index,
                                                       Len(s.render_target_pool)),
                    !.render_target_pool = Append(@, Unwrap(s.cache_rgba8_texture)),
                    !.cache_rgba8_texture = None],
                [op |-> "render_target_pool_push", format |-> "RGBA8",
                 texture |-> Unwrap(s.cache_rgba8_texture).id,
                 pass_index |-> pass_index])
    ELSE s

return_cache_rgba8(s, pass_index) ==
    IF IsSome(s.cache_rgba8_texture)
        THEN EmitPool(
                [s EXCEPT
                    !.pass_rgba8_textures = map_insert(@, pass_index - 1,
                                                       Len(s.render_target_pool)),
                    !.render_target_pool = Append(@, Unwrap(s.cache_rgba8_texture)),
                    !.cache_rgba8_texture = None],
                [op |-> "render_target_pool_push", format |-> "RGBA8",
                 texture |-> Unwrap(s.cache_rgba8_texture).id,
                 pass_index |-> pass_index - 1])
    ELSE s

\* return_cache_a8 that lets go of the texture without pooling it
return_cache_a8_dropping(s, pass_index) ==
    [s EXCEPT !.cache_a8_texture = None]

return_cache_a8(s, pass_index) ==
    IF IsSome(s.cache_a8_texture)
        THEN EmitPool(
                [s EXCEPT
                    !.pass_a8_textures = map_insert(@, pass_index - 1,
                                                    Len(s.render_target_pool)),
                    !.render_target_pool = Append(@, Unwrap(s.cache_a8_texture)),
                    !.cache_a8_texture = None],
                [op |-> "render_target_pool_push", format |-> "A8",
                 texture |-> Unwrap(s.cache_a8_texture).id,
                 pass_index |-> pass_index - 1])
    ELSE s

\* set_cache_textures with the two textures in each other's place
set_cache_textures_swapped(s, a8_texture, rgba8_texture) ==
    [s EXCEPT !.cache_rgba8_texture = a8_texture, !.cache_a8_texture = rgba8_texture]

set_cache_textures(s, a8_texture, rgba8_texture) ==
    [s EXCEPT !.cache_rgba8_texture = rgba8_texture, !.cache_a8_texture = a8_texture]

\* SourceTextureResolver::end_pass; pass_index counts from 0
SourceTextureResolver_end_pass(s, a8_texture, rgba8_texture, pass_index) ==
    IF s.panicked THEN s
    ELSE set_cache_textures(
            return_cache_a8(return_cache_rgba8(s, pass_index), pass_index),
            a8_texture, rgba8_texture)

\* end_frame that leaves the cache textures where they are
SourceTextureResolver_end_frame_keeping(s, pass_index) == s

\* SourceTextureResolver::end_frame
SourceTextureResolver_end_frame(s, pass_index) ==
    SourceTextureResolver_end_pass(s, None, None, pass_index)

\* alpha.texture.take() and color.texture.take()
take_list_textures(s, p) ==
    [s EXCEPT !.passes[p].alpha.texture = None, !.passes[p].color.texture = None]

\* Device::bind_texture: the sampler shows the texture from now on
Device_bind_texture(s, sampler, texture) ==
    EmitPool([s EXCEPT !.samplers[sampler] = Some(texture.id)],
             [op |-> "bind_texture", sampler |-> sampler, texture |-> texture.id])

\* HashMap::get
map_get(map, key) ==
    IF \E e \in map : e[1] = key
        THEN Some((CHOOSE e \in map : e[1] = key)[2])
        ELSE None

\* &self.render_target_pool[pool_index.0] for the pass's entry of the map;
\* expect() panics without an entry, the index is bounds-checked
bind_pool_texture(s, sampler, pool_index) ==
    IF ~IsSome(pool_index) \/ Unwrap(pool_index) >= Len(s.render_target_pool)
        THEN Panic(EmitPool(s, [op |-> "bind_failed", sampler |-> sampler]))
        ELSE Device_bind_texture(s, sampler, s.render_target_pool[Unwrap(pool_index) + 1])

\* SourceTextureResolver::resolve for CacheA8 and CacheRGBA8
SourceTextureResolver_resolve(s, texture_id) ==
    IF texture_id.kind = "CacheA8"
        THEN Some(unwrap_or(s.cache_a8_texture, s.dummy_cache_texture))
        ELSE Some(unwrap_or(s.cache_rgba8_texture, s.dummy_cache_texture))

\* SourceTextureResolver::bind
SourceTextureResolver_bind(s, texture_id, sampler) ==
    IF s.panicked THEN s
    ELSE CASE texture_id.kind = "CacheA8" ->
                Device_bind_texture(s, sampler,
                    unwrap_or(s.cache_a8_texture, s.dummy_cache_texture))
           [] texture_id.kind = "CacheRGBA8" ->
                Device_bind_texture(s, sampler,
                    unwrap_or(s.cache_rgba8_texture, s.dummy_cache_texture))
           [] texture_id.kind = "RenderTaskCacheRGBA8" ->
                bind_pool_texture(
                    EmitPool(s, [op |-> "bind", texture_id |-> texture_id]), sampler,
                    map_get(s.pass_rgba8_textures, texture_id.pass_index))
           [] texture_id.kind = "RenderTaskCacheA8" ->
                bind_pool_texture(
                    EmitPool(s, [op |-> "bind", texture_id |-> texture_id]), sampler,
                    map_get(s.pass_a8_textures, texture_id.pass_index))

\* the head of a turn of the pass loop: CacheA8 and CacheRGBA8 are bound
bind_cache_samplers(s, p) ==
    SourceTextureResolver_bind(
        SourceTextureResolver_bind([s EXCEPT !.h_pass = p - 1], CacheA8, "CacheA8"),
        CacheRGBA8, "CacheRGBA8")

\* submit_batch binds the source textures of the batches of the pass
RECURSIVE bind_sources(_, _)
bind_sources(s, sources) ==
    IF s.panicked \/ sources = {} THEN s
    ELSE bind_sources(
            SourceTextureResolver_bind(s, CHOOSE x \in sources : TRUE, "Color0"),
            sources \ {CHOOSE x \in sources : TRUE})

\* the targets of the pass are drawn: the textures drawn into and the cache
\* textures the samplers show meanwhile
draw_pass_targets(s, p) ==
    IF s.panicked THEN s
    ELSE IF s.passes[p].kind = "MainFramebuffer"
        THEN EmitPool(s, [op |-> "draw_pass", alpha |-> None, color |-> None,
                          samplers |-> s.samplers])
    ELSE IF \/ s.passes[p].alpha.targets > 0 /\ ~IsSome(s.passes[p].alpha.texture)
            \/ s.passes[p].color.targets > 0 /\ ~IsSome(s.passes[p].color.texture)
        THEN Panic(s)
    ELSE EmitPool(s, [op |-> "draw_pass",
                      alpha |-> IF IsSome(s.passes[p].alpha.texture)
                                  THEN Some(Unwrap(s.passes[p].alpha.texture).id)
                                  ELSE None,
                      color |-> IF IsSome(s.passes[p].color.texture)
                                  THEN Some(Unwrap(s.passes[p].color.texture).id)
                                  ELSE None,
                      samplers |-> s.samplers])

\* (alpha.texture.take(), color.texture.take()) handed to end_pass
end_pass_with_outputs(s, p) ==
    IF s.panicked THEN s
    ELSE IF s.passes[p].kind = "MainFramebuffer"
        THEN SourceTextureResolver_end_pass(s, None, None, p - 1)
    ELSE SourceTextureResolver_end_pass(take_list_textures(s, p),
            s.passes[p].alpha.texture, s.passes[p].color.texture, p - 1)

\* bind_shared_cache_a8 in every pass
bind_shared_cache_a8_every_pass(s, p) ==
    IF s.panicked THEN s
    ELSE Device_bind_texture(s, "SharedCacheA8",
            Unwrap(SourceTextureResolver_resolve(s, CacheA8)))

\* if pass_index == 0 { bind_texture(SharedCacheA8, resolve(CacheA8)) }
bind_shared_cache_a8(s, p) ==
    IF s.panicked \/ p - 1 # 0 THEN s
    ELSE Device_bind_texture(s, "SharedCacheA8",
            Unwrap(SourceTextureResolver_resolve(s, CacheA8)))

\* history: the ids of the textures a list of the passes holds
RECURSIVE ListTextures(_, _)
ListTextures(passes, p) ==
    IF p > Len(passes) THEN <<>>
    ELSE IF passes[p].kind # "OffScreen" THEN ListTextures(passes, p + 1)
    ELSE (IF IsSome(passes[p].alpha.texture)
            THEN <<Unwrap(passes[p].alpha.texture).id>> ELSE <<>>)
         \o (IF IsSome(passes[p].color.texture)
                THEN <<Unwrap(passes[p].color.texture).id>> ELSE <<>>)
         \o ListTextures(passes, p + 1)

\* history: the same for the frames that are not being drawn
RECURSIVE FrameTextures(_, _)
FrameTextures(s, d) ==
    IF d > Len(s.frames) THEN <<>>
    ELSE (IF d = s.h_doc /\ s.passes # <<>> THEN <<>> ELSE ListTextures(s.frames[d], 1))
         \o FrameTextures(s, d + 1)

\* history: the ids of the render-target textures, place by place: the pool,
\* the lists of the frame being drawn, the lists of the other frames, and
\* the resolver's cache_a8 and cache_rgba8 slots
HeldTextures(s) ==
    [i \in 1 .. Len(s.render_target_pool) |-> s.render_target_pool[i].id]
    \o ListTextures(s.passes, 1)
    \o FrameTextures(s, 1)
    \o (IF IsSome(s.cache_a8_texture) THEN <<Unwrap(s.cache_a8_texture).id>> ELSE <<>>)
    \o (IF IsSome(s.cache_rgba8_texture)
            THEN <<Unwrap(s.cache_rgba8_texture).id>> ELSE <<>>)

\* history: where the textures are when a pass has ended
note_held(s) ==
    IF s.panicked THEN s
    ELSE EmitPool(s, [op |-> "held", ids |-> HeldTextures(s),
                      created |-> s.next_texture - 1])

\* one turn of the pass loop of draw_tile_frame: the cache samplers are bound,
\* the targets of the pass are drawn into the textures of its lists
\* (texture.as_ref().unwrap()) with the sources of its batches bound, the
\* textures are handed to end_pass, and the first pass shares its A8 output
draw_tile_frame_pass(s, p) ==
    IF s.panicked THEN s
    ELSE note_held(
            bind_shared_cache_a8(
                end_pass_with_outputs(
                    draw_pass_targets(
                        bind_sources(bind_cache_samplers(s, p), s.passes[p].sources),
                        p),
                    p),
                p))

RECURSIVE draw_tile_frame_passes(_, _)
draw_tile_frame_passes(s, p) ==
    IF p > Len(s.passes) THEN s
    ELSE draw_tile_frame_passes(draw_tile_frame_pass(s, p), p + 1)

\* the lists of the frame that drew into a texture
FrameLists(passes) ==
    UNION {{passes[p].alpha, passes[p].color} :
                p \in {q \in 1 .. Len(passes) : passes[q].kind = "OffScreen"}}

PoolIds(render_target_pool) ==
    {render_target_pool[i].id : i \in 1 .. Len(render_target_pool)}

\* history: what the lists of this frame were given, and which lists of the
\* frame before had their texture returned to the pool
note_frame(s, before) ==
    IF s.panicked THEN s
    ELSE [s EXCEPT
            !.passes = <<>>,
            !.h_log = <<>>,
            !.h_returned = before.h_lists,
            !.h_lists = {[selector |-> ListSelector(list),
                          perfect |-> list.h_perfect,
                          texture |-> Unwrap(list.h_texture),
                          created |-> list.h_created] :
                            list \in {l \in FrameLists(s.passes) :
                                        /\ IsSome(l.h_texture)
                                        /\ Unwrap(l.h_texture)
                                                \in PoolIds(s.render_target_pool)}}]

end_tile_frame(s) == SourceTextureResolver_end_frame(s, Len(s.passes))

\* history: the pool and the lists as prepare_tile_frame found and left them
note_perfect_phase(s, before) ==
    IF s.panicked THEN s
    ELSE [s EXCEPT !.h_perfect_phase =
            Some([pool_before |-> before.render_target_pool,
                  pool_after |-> s.render_target_pool,
                  next_before |-> before.next_texture,
                  next_after |-> s.next_texture,
                  passes |-> s.passes])]

\* history: the pool and the lists as bind_frame_data left them
note_fallback_phase(s) ==
    IF s.panicked THEN s
    ELSE [s EXCEPT !.h_fallback_phase =
            Some([pool_after |-> s.render_target_pool,
                  next_after |-> s.next_texture,
                  passes |-> s.passes])]

\* the frame of document d becomes the one being worked on, and is put back
load_frame(s, d) ==
    IF s.panicked THEN s ELSE [s EXCEPT !.passes = s.frames[d], !.h_doc = d]

store_frame(s, d) ==
    IF s.panicked THEN s ELSE [s EXCEPT !.frames[d] = s.passes, !.passes = <<>>]

\* for doc_with_id in &mut active_documents { self.prepare_tile_frame(..) }
RECURSIVE prepare_tile_frames(_, _)
prepare_tile_frames(s, d) ==
    IF s.panicked \/ d > Len(s.frames) THEN s
    ELSE prepare_tile_frames(store_frame(prepare_tile_frame(load_frame(s, d)), d),
                             d + 1)

\* draw_tile_frame_pool with the perfect-match scan done as the frame is drawn
draw_tile_frame_pool_preparing(s) ==
    IF s.panicked \/ s.passes = <<>> THEN s
    ELSE end_tile_frame(
            draw_tile_frame_passes(
                SourceTextureResolver_begin_frame(
                    bind_frame_data(prepare_tile_frame(s))), 1))

\* Renderer::draw_tile_frame as the pool sees it
draw_tile_frame_pool(s) ==
    IF s.panicked \/ s.passes = <<>> THEN s
    ELSE end_tile_frame(
            draw_tile_frame_passes(
                SourceTextureResolver_begin_frame(bind_frame_data(s)), 1))

\* for (_, RenderedDocument { frame, .. }) in &mut active_documents { .. }
RECURSIVE draw_tile_frames(_, _)
draw_tile_frames(s, d) ==
    IF s.panicked \/ d > Len(s.frames) THEN s
    ELSE draw_tile_frames(store_frame(draw_tile_frame_pool(load_frame(s, d)), d),
                          d + 1)

\* the pool's share of render_impl for the active documents, sorted by layer
render_documents(s, frames) ==
    draw_tile_frames(
        prepare_tile_frames([s EXCEPT !.frames = frames, !.h_log = <<>>], 1), 1)

\* the frame's share of render_impl: prepare_tile_frame, then draw_tile_frame
\* (bind_frame_data, begin_frame, the pass loop, end_frame)
render_frame(s, passes) ==
    note_frame(
        end_tile_frame(
            draw_tile_frame_passes(
                SourceTextureResolver_begin_frame(
                    note_fallback_phase(
                        bind_frame_data(
                            note_perfect_phase(
                                prepare_tile_frame([s EXCEPT !.passes = passes]),
                                s)))),
                1)),
        s)

----------------------------------------------------------------------------
(* Render tasks and their passes.  A graph is a set of tasks and a set of  *)
(* edges <<task, dependency>>.                                              *)

dependencies(edges, task) == {e[2] : e \in {f \in edges : f[1] = task}}

\* the smallest of a non-empty set of pass indices
min_pass_index(indices) == CHOOSE i \in indices : \A j \in indices : i <= j

\* the largest of a non-empty set of pass indices
max_pass_index(indices) == CHOOSE i \in indices : \A j \in indices : i >= j

\* pass assignment: a leaf task gets pass 0, any other task 1 + the maximum
\* pass index of its dependencies
RECURSIVE assign_pass(_, _)
assign_pass(edges, task) ==
    IF dependencies(edges, task) = {} THEN 0
    ELSE 1 + max_pass_index({assign_pass(edges, d) : d \in dependencies(edges, task)})

assign_passes(tasks, edges) == [task \in tasks |-> assign_pass(edges, task)]

\* the pass list of a frame: no pass for an empty task tree, otherwise the
\* off-screen passes by index and the main framebuffer pass last
build_passes(tasks, pass_index) ==
    IF tasks = {} THEN <<>>
    ELSE [i \in 1 .. max_pass_index({pass_index[t] : t \in tasks}) + 1 |->
            [kind |-> "OffScreen", tasks |-> {t \in tasks : pass_index[t] = i - 1}]]
         \o <<[kind |-> "MainFramebuffer", tasks |-> {}]>>

\* the pass loop of draw_tile_frame: frame.passes.iter_mut().enumerate(); the
\* target of the main framebuffer pass is drawn only with a framebuffer_size
RECURSIVE draw_passes_in_order(_, _, _, _)
draw_passes_in_order(passes, framebuffer_size, i, drawn) ==
    IF i > Len(passes) THEN drawn
    ELSE draw_passes_in_order(passes, framebuffer_size, i + 1,
            Append(drawn, [pass_index |-> i - 1, kind |-> passes[i].kind,
                           tasks |-> passes[i].tasks,
                           target_drawn |-> \/ passes[i].kind = "OffScreen"
                                            \/ IsSome(framebuffer_size)]))

----------------------------------------------------------------------------
(* Batches.  A primitive instance carries the key it has to be drawn with  *)
(* and the rectangle it covers; two instances overlap when they cover the  *)
(* same rectangle.                                                         *)

BatchKey(kind, blend_mode, textures) ==
    [kind |-> kind, blend_mode |-> blend_mode, textures |-> textures]

PrimitiveBatch(key, instances) == [key |-> key, instances |-> instances]

\* an instance may join a batch of the same kind, whatever its other fields
can_join_same_kind(batch, instance) == batch.key.kind = instance.key.kind

\* an instance may join a batch only if the whole key matches
can_join(batch, instance) == batch.key = instance.key

overlaps(batch, instance) ==
    \E i \in 1 .. Len(batch.instances) : batch.instances[i].rect = instance.rect

push_instance(batches, i, instance) ==
    [batches EXCEPT ![i].instances = Append(@, instance)]

new_batch(batches, instance) ==
    Append(batches, PrimitiveBatch(instance.key, <<instance>>))

\* opaque batch list: the instance joins a batch of its key, in any position
opaque_batch_list_add(batches, instance) ==
    IF \E i \in 1 .. Len(batches) : can_join(batches[i], instance)
        THEN push_instance(batches,
                CHOOSE i \in 1 .. Len(batches) : can_join(batches[i], instance),
                instance)
    ELSE new_batch(batches, instance)

\* alpha batch list: the batches are searched from the last one back; the
\* instance joins the first batch of its key, unless a batch it overlaps is
\* met before, in which case a new batch is opened
RECURSIVE alpha_batch_list_add(_, _, _)
alpha_batch_list_add(batches, i, instance) ==
    IF i = 0 THEN new_batch(batches, instance)
    ELSE IF can_join(batches[i], instance) THEN push_instance(batches, i, instance)
    ELSE IF overlaps(batches[i], instance) THEN new_batch(batches, instance)
    ELSE alpha_batch_list_add(batches, i - 1, instance)

\* the batch builder receives an instance
batch_list_add(b, instance) ==
    IF instance.key.blend_mode = "None"
        THEN [b EXCEPT !.opaque_batch_list = opaque_batch_list_add(@, instance),
                       !.pushed = @ + 1]
    ELSE [b EXCEPT !.alpha_batch_list =
                        alpha_batch_list_add(@, Len(b.alpha_batch_list), instance),
                   !.pushed = @ + 1]

\* BatchKind: Brush, Blend, Transformable(_, TextRun(_)), and Composite with
\* the task whose target layer receives the backdrop
BatchKind(tag) == [tag |-> tag]
Composite(backdrop_id) == [tag |-> "Composite", backdrop_id |-> backdrop_id]

\* render_tasks[backdrop_id].get_target_rect(): the layer of the readback task
readback_layer(backdrop_id) == backdrop_id - 1

\* a call of the device: the state it sets, and its place in the order of
\* the calls
Device_call(b, op, value) ==
    [b EXCEPT
        !.blend_enabled = IF op = "set_blend" THEN value ELSE @,
        !.blend_func = IF op = "set_blend_mode" THEN value ELSE @,
        !.depth_test = IF op = "set_depth" THEN value ELSE @,
        !.depth_write = IF op = "set_depth_write" THEN value ELSE @,
        !.draw_target = IF op = "bind_draw_target" THEN value ELSE @,
        !.read_target = IF op = "bind_read_target" THEN value ELSE @,
        !.device_log = Append(@, [op |-> op, value |-> value])]

\* the blend mode the device draws with
device_blend(b) == IF b.blend_enabled THEN b.blend_func ELSE "None"

\* self.device.draw(program) with the instances bound to the program
Device_draw(b, source, key, mode, instances) ==
    [b EXCEPT
        !.device_log = Append(@, [op |-> "draw", source |-> source, key |-> key,
                                  mode |-> mode, instances |-> instances,
                                  blend |-> device_blend(b),
                                  depth_test |-> b.depth_test,
                                  depth_write |-> b.depth_write,
                                  draw_target |-> b.draw_target])]

PanicBatcher(b) == [b EXCEPT !.panicked = TRUE]

\* submit_batch, for a Composite batch: the readback of the backdrop
readback(b, key, instances) ==
    IF Len(instances) # 1 THEN PanicBatcher(b)
    ELSE Device_call(
            Device_call(
                Device_call(
                    Device_call(b, "bind_draw_target",
                                <<"cache_rgba8", readback_layer(key.kind.backdrop_id)>>),
                    "bind_read_target", b.render_target),
                "blit_render_target", <<>>),
            "bind_draw_target", b.render_target)

\* the readback that leaves the cache texture bound as the draw target
readback_unrestored(b, key, instances) ==
    IF Len(instances) # 1 THEN PanicBatcher(b)
    ELSE Device_call(
            Device_call(
                Device_call(b, "bind_draw_target",
                            <<"cache_rgba8", readback_layer(key.kind.backdrop_id)>>),
                "bind_read_target", b.render_target),
            "blit_render_target", <<>>)

\* the record of a batch drawn by submit_batch
record_batch(b, key, instances) ==
    IF b.panicked THEN b
    ELSE [Device_draw(b, "submit_batch", key, "None", instances) EXCEPT
            !.drawn = Append(@, [program |-> [kind |-> key.kind,
                                              blend_mode |-> key.blend_mode],
                                 textures |-> key.textures,
                                 blend |-> device_blend(b),
                                 instances |-> instances])]

\* submit_batch without the draw target restored after a readback
submit_batch_unrestored(b, key, instances) ==
    IF b.panicked THEN b
    ELSE IF key.kind.tag = "TextRun" THEN PanicBatcher(b)
    ELSE record_batch(IF key.kind.tag = "Composite"
                          THEN readback_unrestored(b, key, instances)
                          ELSE b,
                      key, instances)

\* Renderer::submit_batch: one program is selected from key.kind and
\* key.blend_mode, a Composite batch has its backdrop read back, key.textures
\* is bound once, and all instances are drawn
submit_batch(b, key, instances) ==
    IF b.panicked THEN b
    ELSE IF key.kind.tag = "TextRun" THEN PanicBatcher(b)
    ELSE record_batch(IF key.kind.tag = "Composite" THEN readback(b, key, instances)
                                                    ELSE b,
                      key, instances)

\* opaque batches in their recorded order
RECURSIVE submit_opaque_batches_forward(_, _)
submit_opaque_batches_forward(b, i) ==
    IF i = 0 THEN b
    ELSE submit_batch(submit_opaque_batches_forward(b, i - 1),
                      b.opaque_batch_list[i].key, b.opaque_batch_list[i].instances)

\* draw_color_target: opaque batches, last to first, with blending off
RECURSIVE submit_opaque_batches(_, _)
submit_opaque_batches(b, i) ==
    IF i = 0 THEN b
    ELSE submit_opaque_batches(
            submit_batch(b, b.opaque_batch_list[i].key, b.opaque_batch_list[i].instances),
            i - 1)

\* the opaque batches of a target that needs depth, between the calls that
\* set up and end the depth pass
opaque_pass(b) ==
    Device_call(
        submit_opaque_batches(
            Device_call(Device_call(b, "set_depth", TRUE), "set_depth_write", TRUE),
            Len(b.opaque_batch_list)),
        "set_depth_write", FALSE)

\* the blend mode is set on the device and prev_blend_mode is left as it is
set_blend_mode_unrecorded(b, blend_mode) ==
    IF b.panicked \/ blend_mode = b.prev_blend_mode THEN b
    ELSE IF blend_mode = "None" THEN Device_call(b, "set_blend", FALSE)
    ELSE Device_call(Device_call(b, "set_blend", TRUE), "set_blend_mode", blend_mode)

\* prev_blend_mode = BlendMode::None; self.device.set_blend(false)
forget_blend_mode(b) ==
    Device_call([b EXCEPT !.prev_blend_mode = "None"], "set_blend", FALSE)

\* if batch.key.blend_mode != prev_blend_mode { set_blend ... }
set_blend_mode(b, blend_mode) ==
    IF b.panicked \/ blend_mode = b.prev_blend_mode THEN b
    ELSE IF blend_mode \notin {"None", "Alpha", "PremultipliedAlpha",
                               "PremultipliedDestOut"}
        THEN PanicBatcher(b)
    ELSE [(IF blend_mode = "None"
            THEN Device_call(b, "set_blend", FALSE)
            ELSE Device_call(Device_call(b, "set_blend", TRUE),
                             "set_blend_mode", blend_mode))
          EXCEPT !.prev_blend_mode = blend_mode]

\* a text run drawn with its first pass only
text_run_first_pass(blend_mode) ==
    CASE blend_mode = "PremultipliedAlpha" -> <<"premultiplied_alpha">>
      [] blend_mode = "SubpixelDualSource" -> <<"subpixel_dual_source">>
      [] blend_mode = "SubpixelConstantTextColor" -> <<"subpixel_constant_text_color">>
      [] blend_mode = "SubpixelVariableTextColor" -> <<"subpixel_pass0">>
      [] blend_mode = "SubpixelWithBgColor" -> <<"subpixel_with_bg_color_pass0">>
      [] OTHER -> <<>>

\* the blend functions a text run is drawn with, one draw each
text_run_passes(blend_mode) ==
    CASE blend_mode = "PremultipliedAlpha" -> <<"premultiplied_alpha">>
      [] blend_mode = "SubpixelDualSource" -> <<"subpixel_dual_source">>
      [] blend_mode = "SubpixelConstantTextColor" -> <<"subpixel_constant_text_color">>
      [] blend_mode = "SubpixelVariableTextColor" -> <<"subpixel_pass0", "subpixel_pass1">>
      [] blend_mode = "SubpixelWithBgColor" ->
            <<"subpixel_with_bg_color_pass0", "subpixel_with_bg_color_pass1",
              "subpixel_with_bg_color_pass2">>
      [] OTHER -> <<>>

RECURSIVE draw_text_run_passes(_, _, _, _)
draw_text_run_passes(b, batch, passes, i) ==
    IF i > Len(passes) THEN b
    ELSE draw_text_run_passes(
            Device_draw(Device_call(b, "set_blend_mode", passes[i]),
                        "text_run", batch.key, passes[i], batch.instances),
            batch, passes, i + 1)

\* the branch of the alpha-batch loop for a text run
draw_text_run(b, batch) ==
    IF text_run_passes(batch.key.blend_mode) = <<>>
        THEN PanicBatcher(Device_call(b, "set_blend", TRUE))
    ELSE forget_blend_mode(
            draw_text_run_passes(Device_call(b, "set_blend", TRUE), batch,
                                 text_run_passes(batch.key.blend_mode), 1))

\* the body of the alpha-batch loop
submit_alpha_batch(b, batch) ==
    IF b.panicked THEN b
    ELSE IF batch.key.kind.tag = "TextRun" THEN draw_text_run(b, batch)
    ELSE submit_batch(set_blend_mode(b, batch.key.blend_mode), batch.key, batch.instances)

\* draw_color_target: alpha batches in their order, blending set per batch
RECURSIVE submit_alpha_batches(_, _)
submit_alpha_batches(b, i) ==
    IF b.panicked \/ i > Len(b.alpha_batch_list) THEN b
    ELSE submit_alpha_batches(submit_alpha_batch(b, b.alpha_batch_list[i]), i + 1)

\* the end of the batches: disable_depth, set_blend(false)
end_batches(b) ==
    IF b.panicked THEN b
    ELSE Device_call(Device_call(b, "set_depth", FALSE), "set_blend", FALSE)

\* the batches of draw_color_target; without depth the opaque batches are
\* not submitted
draw_color_target_batches(b, needs_depth) ==
    IF b.opaque_batch_list = <<>> /\ b.alpha_batch_list = <<>> THEN b
    ELSE end_batches(
            submit_alpha_batches(
                IF needs_depth
                    THEN opaque_pass(
                            Device_call([b EXCEPT !.prev_blend_mode = "None"],
                                        "set_blend", FALSE))
                    ELSE Device_call([b EXCEPT !.prev_blend_mode = "None"],
                                     "set_blend", FALSE),
                1))

\* ColorRenderTarget::needs_depth: the target has opaque batches
ColorRenderTarget_needs_depth(b) == b.opaque_batch_list # <<>>

\* the head of draw_color_target on the device: the sanity check of the
\* depth buffer, the draw target, and the clear with its depth write
setup_color_target(b, render_target, depth_is_ready) ==
    IF IsSome(render_target) /\ ColorRenderTarget_needs_depth(b) /\ ~Texture_has_depth
        THEN PanicBatcher([b EXCEPT !.render_target = render_target])
    ELSE IF ~depth_is_ready /\ ColorRenderTarget_needs_depth(b)
        THEN Device_call(
                Device_call(
                    Device_call(
                        Device_call(
                            Device_call(
                                Device_call([b EXCEPT !.render_target = render_target],
                                            "bind_draw_target", render_target),
                                "set_depth", FALSE),
                            "set_blend", FALSE),
                        "set_depth_write", TRUE),
                    "clear_target", TRUE),
                "set_depth_write", FALSE)
    ELSE Device_call(
            Device_call(
                Device_call(
                    Device_call([b EXCEPT !.render_target = render_target],
                                "bind_draw_target", render_target),
                    "set_depth", FALSE),
                "set_blend", FALSE),
            "clear_target", FALSE)

\* the head of draw_alpha_target on the device
setup_alpha_target(b, render_target) ==
    Device_call(
        Device_call(
            Device_call(
                Device_call([b EXCEPT !.render_target = render_target],
                            "bind_draw_target", render_target),
                "set_depth", FALSE),
            "set_depth_write", FALSE),
        "clear_target", FALSE)

\* the vertical draw of the separable blur
draw_vertical_blurs(b) ==
    IF b.vertical_blurs = <<>> THEN b
    ELSE Device_draw(b, "vertical_blur", None, "None", b.vertical_blurs)

\* the horizontal draw of the separable blur: draw_alpha_target binds
\* target.horizontal_blurs, draw_color_target binds target.vertical_blurs
draw_horizontal_blurs(b, target_kind) ==
    IF b.horizontal_blurs = <<>> THEN b
    ELSE Device_draw(b, "horizontal_blur", None, "None",
                     IF target_kind = "alpha" THEN b.horizontal_blurs
                                              ELSE b.vertical_blurs)

\* if !target.vertical_blurs.is_empty() || !target.horizontal_blurs.is_empty()
draw_blurs(b, target_kind) ==
    IF b.panicked \/ (b.vertical_blurs = <<>> /\ b.horizontal_blurs = <<>>) THEN b
    ELSE draw_horizontal_blurs(
            draw_vertical_blurs(Device_call(b, "set_blend", FALSE)),
            target_kind)

\* draw_color_target on the device: the head, the blurs, the batches
draw_color_target_device(b, render_target, depth_is_ready) ==
    draw_color_target_batches(
        draw_blurs(setup_color_target(b, render_target, depth_is_ready), "color"),
        ColorRenderTarget_needs_depth(b))

\* draw_alpha_target on the device: the head and the blurs
draw_alpha_target_device(b, render_target) ==
    draw_blurs(setup_alpha_target(b, render_target), "alpha")

----------------------------------------------------------------------------
(* Values of the variables a specification does not use *)

CtorIdle == [state |-> "idle", device_max_size |-> 0, max_texture_size |-> None,
             result |-> None]

CacheIdle == [texture |-> CacheTexture_new, resource_cache |-> {},
              panicked |-> FALSE, last_update |-> None, last_flush |-> None]

ResolverIdle == SourceTextureResolver_new

BatcherIdle == [phase |-> "idle", opaque_batch_list |-> <<>>, alpha_batch_list |-> <<>>,
                pushed |-> 0, drawn |-> <<>>,
                render_target |-> None, draw_target |-> None, read_target |-> None,
                blend_enabled |-> FALSE, blend_func |-> "None",
                prev_blend_mode |-> "None",
                depth_test |-> FALSE, depth_write |-> FALSE,
                vertical_blurs |-> <<>>, horizontal_blurs |-> <<>>,
                panicked |-> FALSE, device_log |-> <<>>,
                stats |-> RendererStats_empty]

BuilderIdle == [phase |-> "idle", tasks |-> {}, edges |-> {}, pass_index |-> <<>>,
                passes |-> <<>>, drawn |-> <<>>]

----------------------------------------------------------------------------
(* The specification of the running renderer *)

Init ==
    /\ result_rx = <<>>
    /\ batcher = BatcherIdle
    /\ builder = BuilderIdle
    /\ resolver = ResolverIdle
    /\ renderer = Renderer_new
    /\ backend = [next_fid |-> 1, created |-> FALSE]
    /\ ctor = CtorIdle
    /\ cache = CacheIdle

\* the backend thread publishes a frame of a document
SendPublishDocument(document_id) ==
    /\ ~renderer.panicked
    /\ Len(result_rx) < MaxQueue
    /\ backend.next_fid <= MaxFrames
    /\ result_rx' = Append(result_rx,
            PublishDocument(document_id,
                            Frame(backend.next_fid, document_id,
                                  DocumentShape[document_id]),
                            FrameTextureUpdates(DocumentShape[document_id])))
    /\ backend' = [next_fid |-> backend.next_fid + 1,
                   created |-> backend.created
                               \/ FrameTextureUpdates(DocumentShape[document_id]) # <<>>]
    /\ UNCHANGED <<renderer, ctor, cache, resolver, builder, batcher>>

\* the backend thread sends texture-cache updates without a frame; it
\* updates only a cache texture it has created
SendUpdateResources(cancel) ==
    /\ ~renderer.panicked
    /\ Len(result_rx) < MaxQueue
    /\ result_rx' = Append(result_rx,
            UpdateResources(IF backend.created THEN <<[id |-> 0, op |-> "Update"]>> ELSE <<>>,
                            cancel))
    /\ UNCHANGED <<renderer, backend, ctor, cache, resolver, builder, batcher>>

\* Renderer::update drains the channel.  With an empty channel the loop body
\* never runs and the renderer is unchanged, so that call is left out.
Update(env) ==
    /\ ~renderer.panicked
    /\ result_rx # <<>>
    /\ renderer' = update(renderer, result_rx, env)
    /\ result_rx' = <<>>
    /\ UNCHANGED <<backend, ctor, cache, resolver, builder, batcher>>

\* Renderer::render.  render() never reads the channel and sending never
\* reads the renderer, so a render() with messages waiting reaches the state
\* of the same render() made before they were sent: only that order is kept.
Render(env) ==
    /\ ~renderer.panicked
    /\ result_rx = <<>>
    /\ renderer' = render(renderer, env)
    /\ UNCHANGED <<result_rx, backend, ctor, cache, resolver, builder, batcher>>

\* the embedder registers its handlers, if it does, before the first
\* update() or render()
SetExternalImageHandler ==
    /\ renderer.last_call = "new"
    /\ ~renderer.external_image_handler
    /\ renderer' = [renderer EXCEPT !.external_image_handler = TRUE]
    /\ UNCHANGED <<result_rx, backend, ctor, cache, resolver, builder, batcher>>

SetOutputImageHandler ==
    /\ renderer.last_call = "new"
    /\ ~renderer.output_image_handler
    /\ renderer' = [renderer EXCEPT !.output_image_handler = TRUE]
    /\ UNCHANGED <<result_rx, backend, ctor, cache, resolver, builder, batcher>>

Next ==
    \/ \E d \in DocumentIds : SendPublishDocument(d)
    \/ \E cancel \in BOOLEAN : SendUpdateResources(cancel)
    \/ \E env \in Envs : Update(env)
    \/ \E env \in Envs : Render(env)
    \/ SetExternalImageHandler
    \/ SetOutputImageHandler

Spec == Init /\ [][Next]_vars

----------------------------------------------------------------------------
(* The specification of Renderer::new: the device's maximum texture size   *)
(* and options.max_texture_size are drawn from sizes around the floor.     *)

DeviceMaxSizes == {0, 256, 511, 512, 513, 1024, 2048, 4096, 8192, 16384}
MaxTextureSizeOptions ==
    {None} \cup {Some(n) : n \in {0, 511, 512, 513, 2048, 4096, 32768}}

InitNew ==
    /\ result_rx = <<>>
    /\ batcher = BatcherIdle
    /\ builder = BuilderIdle
    /\ resolver = ResolverIdle
    /\ renderer = Renderer_new
    /\ backend = [next_fid |-> 1, created |-> FALSE]
    /\ cache = CacheIdle
    /\ ctor \in {[CtorIdle EXCEPT !.state = "called", !.device_max_size = d,
                                  !.max_texture_size = o] :
                    d \in DeviceMaxSizes, o \in MaxTextureSizeOptions}

New ==
    /\ ctor.state = "called"
    /\ ctor' = [ctor EXCEPT
            !.state = "returned",
            !.result = Some(Renderer_new_texture_size(ctor.device_max_size,
                                                      ctor.max_texture_size))]
    /\ UNCHANGED <<result_rx, renderer, backend, cache, resolver, builder, batcher>>

NextNew == New

SpecNew == InitNew /\ [][NextNew]_vars

----------------------------------------------------------------------------
(* The specification of the GPU cache alone: a CacheTexture on the         *)
(* PixelBuffer bus receives update and flush calls in any order.           *)
(* last_update and last_flush record the latest call: its argument and the *)
(* number of rows before it, or what flush returned and uploaded, the rows *)
(* that were dirty before it and whether the call before it was a flush.   *)

CacheUpdateLists ==
    {[height |-> v + 1, blocks |-> <<1, EMPTY>>,
      updates |-> <<Copy(block_index, block_count, GpuCacheAddress(0, v))>>] :
        v \in 0 .. MaxRow, block_index \in 0 .. 1, block_count \in 1 .. 2}
    \cup {[height |-> MaxRow + 1, blocks |-> <<1, 1>>,
           updates |-> <<Copy(0, 1, GpuCacheAddress(1, 0)),
                         Copy(1, 1, GpuCacheAddress(0, MaxRow))>>]}
    \cup {[height |-> v + 1, blocks |-> <<1, 1>>,
           updates |-> <<Copy(0, 2, GpuCacheAddress(MAX_VERTEX_TEXTURE_WIDTH - 1, v))>>] :
             v \in 0 .. MaxRow}

InitCache ==
    /\ result_rx = <<>>
    /\ batcher = BatcherIdle
    /\ builder = BuilderIdle
    /\ resolver = ResolverIdle
    /\ renderer = Renderer_new
    /\ backend = [next_fid |-> 1, created |-> FALSE]
    /\ ctor = CtorIdle
    /\ cache = CacheIdle

\* CacheTexture::update
CacheUpdate(updates) ==
    /\ ~cache.panicked
    /\ LET s == CacheTexture_update(cache.texture, updates)
       IN  cache' = [cache EXCEPT
                !.texture = s.ct, !.panicked = s.panicked,
                !.last_update = Some([updates |-> updates,
                                      rows_before |-> Len(cache.texture.rows)]),
                !.last_flush = None]
    /\ UNCHANGED <<result_rx, renderer, backend, ctor, resolver, builder, batcher>>

\* CacheTexture::flush, with the uploads applied to the device's texture
CacheFlush ==
    /\ ~cache.panicked
    /\ LET f == CacheTexture_flush(cache.texture)
           flushed == upload_rows([resource_cache |-> cache.resource_cache, log |-> <<>>],
                                  f.uploads, 1)
       IN  cache' = [cache EXCEPT
                !.texture = f.ct,
                !.resource_cache = flushed.resource_cache,
                !.last_update = None,
                !.last_flush = Some([rows_dirty |-> f.rows_dirty,
                                     uploads |-> f.uploads,
                                     dirty_before |-> DirtyRows(cache.texture),
                                     repeated |-> IsSome(cache.last_flush)])]
    /\ UNCHANGED <<result_rx, renderer, backend, ctor, resolver, builder, batcher>>

NextCache ==
    \/ \E updates \in CacheUpdateLists : CacheUpdate(updates)
    \/ CacheFlush

SpecCache == InitCache /\ [][NextCache]_vars

----------------------------------------------------------------------------
(* The specification of the render-target pool: frames of one document are *)
(* prepared and drawn one after the other.                                 *)

MaxTextures == 4    \* textures the device creates in a behaviour

TargetSizes == {DeviceUintSize(1, 1), DeviceUintSize(2, 1)}

AlphaLists ==
    {RenderTargetList(size, targets, "A8") : size \in TargetSizes, targets \in 0 .. 1}

ColorLists ==
    {RenderTargetList(size, targets, "BGRA8") : size \in TargetSizes, targets \in 0 .. 2}

\* one off-screen pass and the main framebuffer, or two off-screen passes of
\* different sizes and the main framebuffer
PoolFrames ==
    {<<PoolOffScreen(alpha, color), PoolMainFramebuffer>> :
        alpha \in AlphaLists, color \in ColorLists}
    \cup {<<PoolOffScreen(RenderTargetList(DeviceUintSize(1, 1), 1, "A8"),
                          RenderTargetList(DeviceUintSize(1, 1), 1, "BGRA8")),
            PoolOffScreen(RenderTargetList(DeviceUintSize(2, 1), 1, "A8"),
                          RenderTargetList(DeviceUintSize(2, 1), 0, "BGRA8")),
            PoolMainFramebuffer>>}

NonEmptyLists(passes) == Cardinality({list \in FrameLists(passes) : list.targets > 0})

InitPool ==
    /\ result_rx = <<>>
    /\ batcher = BatcherIdle
    /\ builder = BuilderIdle
    /\ renderer = Renderer_new
    /\ backend = [next_fid |-> 1, created |-> FALSE]
    /\ ctor = CtorIdle
    /\ cache = CacheIdle
    /\ resolver = SourceTextureResolver_new
    /\ builder = BuilderIdle
    /\ batcher = BatcherIdle

\* a frame is prepared and drawn
RenderFrame(passes) ==
    /\ ~resolver.panicked
    /\ resolver.next_texture - 1 + NonEmptyLists(passes) <= MaxTextures
    /\ resolver' = render_frame(resolver, passes)
    /\ UNCHANGED <<result_rx, renderer, backend, ctor, cache, builder, batcher>>

NextPool == \E passes \in PoolFrames : RenderFrame(passes)

SpecPool == InitPool /\ [][NextPool]_vars

----------------------------------------------------------------------------
(* The specification of a render of several documents as the pool and the  *)
(* texture resolver see it: the frames of the active documents are         *)
(* prepared, then drawn one after the other.                               *)

\* a page without passes; a plain page; a page with an alpha target only;
\* a page with one off-screen pass; a page whose last pass
\* samples the outputs of the first of three; a page whose second pass asks
\* for the outputs of the first by pass index
PoolDocuments ==
    {<<>>,
     <<PoolMainFramebuffer>>,
     <<PoolOffScreen(RenderTargetList(DeviceUintSize(1, 1), 1, "A8"),
                     RenderTargetList(DeviceUintSize(1, 1), 0, "BGRA8"))>>,
     <<PoolOffScreen(RenderTargetList(DeviceUintSize(2, 1), 1, "A8"),
                     RenderTargetList(DeviceUintSize(1, 1), 0, "BGRA8")),
       PoolMainFramebuffer>>,
     <<PoolOffScreen(RenderTargetList(DeviceUintSize(1, 1), 1, "A8"),
                     RenderTargetList(DeviceUintSize(1, 1), 1, "BGRA8")),
       PoolMainFramebuffer>>,
     <<PoolOffScreen(RenderTargetList(DeviceUintSize(1, 1), 1, "A8"),
                     RenderTargetList(DeviceUintSize(1, 1), 1, "BGRA8")),
       PoolOffScreen(RenderTargetList(DeviceUintSize(2, 1), 1, "A8"),
                     RenderTargetList(DeviceUintSize(2, 1), 0, "BGRA8")),
       Sampling(PoolMainFramebuffer,
                {RenderTaskCacheRGBA8(0), RenderTaskCacheA8(0)})>>,
     <<PoolOffScreen(RenderTargetList(DeviceUintSize(1, 1), 0, "A8"),
                     RenderTargetList(DeviceUintSize(2, 1), 2, "BGRA8")),
       Sampling(PoolMainFramebuffer, {RenderTaskCacheRGBA8(0)})>>}

\* active_documents holds one or two documents
ActiveFrames ==
    {<<frame>> : frame \in PoolDocuments}
    \cup {<<first, second>> : first \in PoolDocuments, second \in PoolDocuments}

RECURSIVE ListsWithTargets(_, _)
ListsWithTargets(frames, d) ==
    IF d > Len(frames) THEN 0
    ELSE Cardinality({at \in {q \in 1 .. Len(frames[d]) :
                                frames[d][q].kind = "OffScreen"} \X {"alpha", "color"} :
                        frames[d][at[1]][at[2]].targets > 0})
         + ListsWithTargets(frames, d + 1)

\* render() with these active documents
RenderDocuments(frames) ==
    /\ ~resolver.panicked
    /\ resolver.next_texture - 1 + ListsWithTargets(frames, 1) <= MaxTextures
    /\ resolver' = render_documents(resolver, frames)
    /\ UNCHANGED <<result_rx, renderer, backend, ctor, cache, builder, batcher>>

NextDocuments == \E frames \in ActiveFrames : RenderDocuments(frames)

SpecDocuments == InitPool /\ [][NextDocuments]_vars

----------------------------------------------------------------------------
(* The specification of pass assignment: an acyclic render-task graph is   *)
(* assigned to passes, and the passes are drawn.                           *)

MaxTasks == 3       \* render tasks of a frame

RECURSIVE Acyclic(_, _)
Acyclic(edges, remaining) ==
    IF remaining = {} THEN TRUE
    ELSE /\ \E t \in remaining : dependencies(edges, t) \cap remaining = {}
         /\ Acyclic(edges, {t \in remaining : dependencies(edges, t) \cap remaining # {}})

TaskGraphs ==
    UNION {{[tasks |-> 1 .. n, edges |-> edges] :
                edges \in {e \in SUBSET {<<t, d>> \in (1 .. n) \X (1 .. n) : t # d} :
                                Acyclic(e, 1 .. n)}} :
            n \in 0 .. MaxTasks}

InitPasses ==
    /\ result_rx = <<>>
    /\ batcher = BatcherIdle
    /\ renderer = Renderer_new
    /\ backend = [next_fid |-> 1, created |-> FALSE]
    /\ ctor = CtorIdle
    /\ cache = CacheIdle
    /\ resolver = ResolverIdle
    /\ batcher = BatcherIdle
    /\ builder \in {[BuilderIdle EXCEPT !.phase = "graph", !.tasks = g.tasks,
                                        !.edges = g.edges] : g \in TaskGraphs}

\* the frame builder assigns the tasks to passes
AssignPasses ==
    /\ builder.phase = "graph"
    /\ builder' = [builder EXCEPT
            !.phase = "assigned",
            !.pass_index = assign_passes(builder.tasks, builder.edges),
            !.passes = build_passes(builder.tasks,
                                    assign_passes(builder.tasks, builder.edges))]
    /\ UNCHANGED <<result_rx, renderer, backend, ctor, cache, resolver, batcher>>

\* draw_tile_frame walks the passes of the frame
DrawTileFrame(framebuffer_size) ==
    /\ builder.phase = "assigned"
    /\ builder' = [builder EXCEPT
            !.phase = "drawn",
            !.drawn = draw_passes_in_order(builder.passes, framebuffer_size, 1, <<>>)]
    /\ UNCHANGED <<result_rx, renderer, backend, ctor, cache, resolver, batcher>>

NextPasses ==
    \/ AssignPasses
    \/ \E framebuffer_size \in {None, Some(DeviceUintSize(2, 1))} :
            DrawTileFrame(framebuffer_size)

SpecPasses == InitPasses /\ [][NextPasses]_vars

----------------------------------------------------------------------------
(* The specification of batching: the builder receives the instances of a  *)
(* color target one by one, and the renderer draws the target.             *)

MaxInstances == 3   \* primitive instances of a target

BatchKeys ==
    {BatchKey(kind, blend_mode, textures) :
        kind \in {BatchKind("Brush"), BatchKind("Blend")},
        blend_mode \in {"None", "Alpha"}, textures \in 1 .. 2}

PrimitiveInstances ==
    {[key |-> key, rect |-> rect] : key \in BatchKeys, rect \in 1 .. 2}

InitBatch ==
    /\ result_rx = <<>>
    /\ renderer = Renderer_new
    /\ backend = [next_fid |-> 1, created |-> FALSE]
    /\ ctor = CtorIdle
    /\ cache = CacheIdle
    /\ resolver = ResolverIdle
    /\ builder = BuilderIdle
    /\ batcher = [BatcherIdle EXCEPT !.phase = "building"]

\* the batch builder is handed an instance
AddInstance(instance) ==
    /\ batcher.phase = "building"
    /\ batcher.pushed < MaxInstances
    /\ batcher' = batch_list_add(batcher, instance)
    /\ UNCHANGED <<result_rx, renderer, backend, ctor, cache, resolver, builder>>

\* the renderer draws the target
DrawColorTarget(needs_depth) ==
    /\ batcher.phase = "building"
    /\ batcher' = [draw_color_target_batches(batcher, needs_depth) EXCEPT
                        !.phase = "drawn"]
    /\ UNCHANGED <<result_rx, renderer, backend, ctor, cache, resolver, builder>>

NextBatch ==
    \/ \E instance \in PrimitiveInstances : AddInstance(instance)
    \/ \E needs_depth \in BOOLEAN : DrawColorTarget(needs_depth)

SpecBatch == InitBatch /\ [][NextBatch]_vars

----------------------------------------------------------------------------
(* The specification of a render target on the device: the frame builder   *)
(* records the batches and the blur instances of a target, and the         *)
(* renderer draws it as a color target or as an alpha target.              *)

TaskIds == 1 .. 2

OpaqueBatchKeys ==
    {BatchKey(BatchKind("Brush"), "None", textures) : textures \in 1 .. 2}

AlphaBatchKeys ==
    {BatchKey(BatchKind("Brush"), blend_mode, 1) :
        blend_mode \in {"None", "Alpha", "PremultipliedAlpha"}}
    \cup {BatchKey(BatchKind("TextRun"), blend_mode, 1) :
            blend_mode \in {"Alpha", "PremultipliedAlpha", "SubpixelDualSource",
                            "SubpixelConstantTextColor", "SubpixelVariableTextColor",
                            "SubpixelWithBgColor"}}
    \cup {BatchKey(Composite(backdrop_id), "PremultipliedAlpha", 1) :
            backdrop_id \in TaskIds}

\* the render target of a pass: the main framebuffer, or a layer of a texture
RenderTargets == {None, Some(<<"texture", 0>>)}

\* the batch of one instance that the builder records for a key
RecordedBatch(b, key) ==
    PrimitiveBatch(key, <<[key |-> key, rect |-> b.pushed + 1]>>)

AddOpaqueBatch(key) ==
    /\ batcher.phase = "building"
    /\ batcher.pushed < MaxInstances
    /\ batcher' = [batcher EXCEPT
            !.opaque_batch_list = Append(@, RecordedBatch(batcher, key)),
            !.pushed = @ + 1]
    /\ UNCHANGED <<result_rx, renderer, backend, ctor, cache, resolver, builder>>

AddAlphaBatch(key) ==
    /\ batcher.phase = "building"
    /\ batcher.pushed < MaxInstances
    /\ batcher' = [batcher EXCEPT
            !.alpha_batch_list = Append(@, RecordedBatch(batcher, key)),
            !.pushed = @ + 1]
    /\ UNCHANGED <<result_rx, renderer, backend, ctor, cache, resolver, builder>>

\* a blur task is placed on the target
AddBlur(vertical) ==
    /\ batcher.phase = "building"
    /\ batcher.pushed < MaxInstances
    /\ batcher' = [batcher EXCEPT
            !.vertical_blurs =
                IF vertical THEN Append(@, [task_id |-> batcher.pushed + 1]) ELSE @,
            !.horizontal_blurs =
                IF vertical THEN @ ELSE Append(@, [task_id |-> batcher.pushed + 1]),
            !.pushed = @ + 1]
    /\ UNCHANGED <<result_rx, renderer, backend, ctor, cache, resolver, builder>>

\* stats.color_target_count += 1, stats.alpha_target_count += 1: the pass
\* loop counts a target before it draws it
count_color_target(b) == [b EXCEPT !.stats.color_target_count = @ + 1]
count_alpha_target(b) == [b EXCEPT !.stats.alpha_target_count = @ + 1]

\* the renderer draws the target as a color target
DrawColorTargetDevice(render_target, depth_is_ready) ==
    /\ batcher.phase = "building"
    /\ batcher' = [draw_color_target_device(count_color_target(batcher),
                                            render_target, depth_is_ready)
                        EXCEPT !.phase = "color"]
    /\ UNCHANGED <<result_rx, renderer, backend, ctor, cache, resolver, builder>>

\* the renderer draws the target as an alpha target, which has no batches
DrawAlphaTargetDevice ==
    /\ batcher.phase = "building"
    /\ batcher.opaque_batch_list = <<>>
    /\ batcher.alpha_batch_list = <<>>
    /\ batcher' = [draw_alpha_target_device(count_alpha_target(batcher),
                                            Some(<<"texture", 0>>))
                        EXCEPT !.phase = "alpha"]
    /\ UNCHANGED <<result_rx, renderer, backend, ctor, cache, resolver, builder>>

NextTarget ==
    \/ \E key \in OpaqueBatchKeys : AddOpaqueBatch(key)
    \/ \E key \in AlphaBatchKeys : AddAlphaBatch(key)
    \/ \E vertical \in BOOLEAN : AddBlur(vertical)
    \/ \E render_target \in RenderTargets, depth_is_ready \in BOOLEAN :
            DrawColorTargetDevice(render_target, depth_is_ready)
    \/ DrawAlphaTargetDevice

SpecTarget == InitBatch /\ [][NextTarget]_vars

----------------------------------------------------------------------------
(* The specification of the texture-cache updates: the backend thread      *)
(* sends frames of one document and resource updates, with texture-cache   *)
(* operations of either kind on one cache texture.                         *)

TextureFormats == {"Invalid", "BGRA8"}

\* the backend thread creates a cache texture before it updates or frees it
TextureUpdateLists(created) ==
    IF created
        THEN {<<[id |-> 0, op |-> "Update"], [id |-> 0, op |-> "Free"]>>,
              <<[id |-> 0, op |-> "Create", format |-> "Invalid"],
                [id |-> 0, op |-> "Update"]>>}
        ELSE {<<[id |-> 0, op |-> "Create", format |-> format]>> :
                        format \in TextureFormats}

\* every lock of the embedder succeeds
TextureEnvs == {[ext |-> AllNative, out |-> PipelineIds]}

HasCreate(updates) == \E i \in 1 .. Len(updates) : updates[i].op = "Create"

InitTextures ==
    /\ result_rx = <<>>
    /\ renderer = [Renderer_new EXCEPT !.external_image_handler = TRUE,
                                       !.output_image_handler = TRUE]
    /\ backend = [next_fid |-> 1, created |-> FALSE]
    /\ ctor = CtorIdle
    /\ cache = CacheIdle
    /\ resolver = ResolverIdle
    /\ builder = BuilderIdle
    /\ batcher = BatcherIdle

\* the backend thread publishes a frame with its texture-cache operations
SendTextureFrame(updates) ==
    /\ ~renderer.panicked
    /\ Len(result_rx) < MaxQueue
    /\ backend.next_fid <= MaxFrames
    /\ result_rx' = Append(result_rx,
            PublishDocument(2, Frame(backend.next_fid, 2, DocumentShape[2]), updates))
    /\ backend' = [next_fid |-> backend.next_fid + 1,
                   created |-> backend.created \/ HasCreate(updates)]
    /\ UNCHANGED <<renderer, ctor, cache, resolver, builder, batcher>>

\* the backend thread sends texture-cache operations without a frame
SendTextureUpdates(updates) ==
    /\ ~renderer.panicked
    /\ Len(result_rx) < MaxQueue
    /\ result_rx' = Append(result_rx, UpdateResources(updates, FALSE))
    /\ backend' = [backend EXCEPT !.created = @ \/ HasCreate(updates)]
    /\ UNCHANGED <<renderer, ctor, cache, resolver, builder, batcher>>

NextTextures ==
    \/ \E updates \in TextureUpdateLists(backend.created) : SendTextureFrame(updates)
    \/ \E updates \in TextureUpdateLists(backend.created) : SendTextureUpdates(updates)
    \/ \E env \in TextureEnvs : Update(env)
    \/ \E env \in TextureEnvs : Render(env)

SpecTextures == InitTextures /\ [][NextTextures]_vars

----------------------------------------------------------------------------
(* The specification of frames without passes: the backend thread sends    *)
(* frames of one document, with or without passes and GPU-cache updates.   *)

\* "empty" has no pass and nothing else, "empty_gpu" no pass but GPU-cache
\* updates, "simple" the main framebuffer pass
FrameShapes == {"simple", "empty", "empty_gpu"}

\* the backend thread publishes a frame of document 1
SendFrame(shape) ==
    /\ ~renderer.panicked
    /\ Len(result_rx) < MaxQueue
    /\ backend.next_fid <= MaxFrames
    /\ result_rx' = Append(result_rx,
            PublishDocument(1, Frame(backend.next_fid, 1, shape),
                            FrameTextureUpdates(shape)))
    /\ backend' = [backend EXCEPT !.next_fid = @ + 1]
    /\ UNCHANGED <<renderer, ctor, cache, resolver, builder, batcher>>

NextFrames ==
    \/ \E shape \in FrameShapes : SendFrame(shape)
    \/ \E env \in TextureEnvs : Update(env)
    \/ \E env \in TextureEnvs : Render(env)

SpecFrames == InitTextures /\ [][NextFrames]_vars

----------------------------------------------------------------------------
(* The specification of the depth clear: two documents that draw to the    *)
(* main framebuffer, each in the left half, the right half or the whole of *)
(* it, with or without a need for depth.                                   *)

InnerRects ==
    {DeviceUintRect(0, 0, 2, 4), DeviceUintRect(2, 0, 2, 4), FullRect}

Backgrounds == {None, Some("white")}

\* the backend thread publishes a frame of a document
SendDepthFrame(document_id, inner_rect, needs_depth, background_color) ==
    /\ ~renderer.panicked
    /\ Len(result_rx) < MaxQueue
    /\ backend.next_fid <= MaxFrames
    /\ result_rx' = Append(result_rx,
            PublishDocument(document_id,
                [Frame(backend.next_fid, document_id, "plain") EXCEPT
                    !.passes = <<MainFramebuffer(DepthColorRenderTarget(needs_depth))>>,
                    !.inner_rect = inner_rect,
                    !.background_color = background_color],
                <<>>))
    /\ backend' = [backend EXCEPT !.next_fid = @ + 1]
    /\ UNCHANGED <<renderer, ctor, cache, resolver, builder, batcher>>

NextDepth ==
    \/ \E document_id \in DocumentIds, inner_rect \in InnerRects,
          needs_depth \in BOOLEAN, background_color \in Backgrounds :
            \* a background color only matters on a frame that fills the framebuffer
            /\ inner_rect = FullRect \/ background_color = None
            /\ SendDepthFrame(document_id, inner_rect, needs_depth, background_color)
    \/ \E env \in TextureEnvs : Update(env)
    \/ \E env \in TextureEnvs : Render(env)

SpecDepth == InitTextures /\ [][NextDepth]_vars

----------------------------------------------------------------------------
(* Properties of the running renderer (Spec), of Renderer::new (SpecNew)   *)
(* and of the GPU cache (SpecCache).                                       *)

Log == renderer.log

LogIndices(op) == {i \in DOMAIN Log : Log[i].op = op}

CountFor(op, key) == Cardinality({i \in LogIndices(op) : Log[i].key = key})

\* the calls i < j of the log were made by the same render_impl
SameFrame(i, j) == \A k \in (i + 1) .. j : Log[k].op # "begin_frame"

RenderReturned == renderer.last_call = "render" /\ ~renderer.panicked

RECURSIVE CountDeferredResolves(_, _)
CountDeferredResolves(docs, i) ==
    IF i > Len(docs) THEN 0
    ELSE Len(docs[i].frame.deferred_resolves) + CountDeferredResolves(docs, i + 1)

\* the UV rect of every deferred resolve of frame is in the CPU mirror and
\* in the device's texture
UvRectsPatched(frame) ==
    \A n \in DOMAIN frame.deferred_resolves :
        LET resolve == frame.deferred_resolves[n]
            offset == resolve.address.v * MAX_VERTEX_TEXTURE_WIDTH + resolve.address.u
        IN  /\ VecGet(renderer.gpu_cache_texture.cpu_blocks, offset) = 10 + resolve.id
            /\ <<offset, 10 + resolve.id>> \in renderer.resource_cache

\* C1: when a PublishDocument for a document replaces a frame of it that has
\* not been drawn, no target of the replaced frame is ever drawn; stated here
\* for the target that is visible: the replaced frame is never drawn to the
\* main framebuffer, only the replacing frame reaches the screen.
C1_SupersededFrameNotOnScreen ==
    \A e \in renderer.h_superseded_drawn : e[2] # "main"

\* C2: active_documents holds at most one entry per DocumentId.
C2_OneEntryPerDocument ==
    \A i, j \in DOMAIN renderer.active_documents :
        renderer.active_documents[i].id = renderer.active_documents[j].id => i = j

C2_Witness ==
    /\ renderer.last_call = "update"
    /\ renderer.h_superseded # {}
    /\ Len(renderer.active_documents) = 2

\* C3: no target of a frame that was active when an UpdateResources with
\* cancel_rendering was processed is drawn afterwards, and a render() that
\* finds active_documents empty calls nothing and returns Ok with empty stats.
C3_CancelledNeverDrawn ==
    /\ renderer.h_drawn_after_cancel = {}
    /\ (RenderReturned /\ renderer.active_documents = <<>>) =>
            /\ Log = <<>>
            /\ renderer.last_result =
                Some([ok |-> TRUE, stats |-> RendererStats_empty, errors |-> <<>>])

C3_Witness ==
    /\ RenderReturned
    /\ renderer.h_cancelled # {}
    /\ renderer.active_documents = <<>>

C5_MaxTextureSize ==
    ctor.state = "returned" =>
        LET device == ctor.device_max_size
            option == ctor.max_texture_size
            result == Unwrap(ctor.result)
        IN  IF device < 512
                THEN ~result.ok /\ result.error = "MaxTextureSize"
                ELSE /\ result.ok
                     /\ result.max_device_size =
                            (IF ~IsSome(option) \/ Unwrap(option) >= device THEN device
                             ELSE IF Unwrap(option) < 512 THEN 512
                             ELSE Unwrap(option))
                     /\ 512 <= result.max_device_size
                     /\ result.max_device_size <= device

C5_Witness ==
    /\ ctor.state = "returned"
    /\ ctor.device_max_size = 4096
    /\ ctor.max_texture_size = Some(0)
    /\ Unwrap(ctor.result).max_device_size = 512

\* C6: in a render(), lock is called once per distinct (id, channel) of the
\* deferred resolves and every lock is matched by one unlock of the same key.
C6_LockOncePerImage ==
    RenderReturned =>
        \A key \in ExternalImageKeys :
            /\ CountFor("lock", key) <= 1
            /\ CountFor("unlock", key) = CountFor("lock", key)

\* C7: a lock that returns the Invalid source registers texture 0 for the
\* image, the UV rect of its resolve is still written to the GPU cache, no
\* error is recorded and every resolve of the frame is processed.
C7_InvalidSourceTolerated ==
    (RenderReturned /\ \E i \in LogIndices("lock") : Log[i].source = "Invalid") =>
        /\ \A i \in LogIndices("lock") :
                Log[i].source = "Invalid" =>
                    Log[i + 1] = [op |-> "external_images_insert", key |-> Log[i].key,
                                  texture |-> 0]
        /\ Cardinality(LogIndices("lock")) =
                CountDeferredResolves(renderer.active_documents, 1)
        /\ \A n \in DOMAIN renderer.active_documents :
                UvRectsPatched(renderer.active_documents[n].frame)
        /\ Unwrap(renderer.last_result).ok
        /\ renderer.renderer_errors = <<>>

C7_Witness ==
    /\ RenderReturned
    /\ \E i, j \in LogIndices("lock") :
            i < j /\ Log[i].source = "Invalid" /\ Log[j].source = "NativeTexture"

\* C8: OutputImageHandler::unlock is called exactly for the locks that
\* returned Some, after the blit; a lock that returned None is followed by
\* neither a blit nor an unlock.
C8_OutputUnlockIffLocked ==
    /\ \A i \in LogIndices("output_lock") :
            IF Log[i].locked
                THEN /\ i + 2 <= Len(Log)
                     /\ Log[i + 1] = [op |-> "blit_render_target",
                                      pipeline_id |-> Log[i].pipeline_id]
                     /\ Log[i + 2] = [op |-> "output_unlock",
                                      pipeline_id |-> Log[i].pipeline_id]
                ELSE i + 1 <= Len(Log) =>
                        Log[i + 1].op \notin {"blit_render_target", "output_unlock"}
    /\ \A i \in LogIndices("output_unlock") :
            /\ i > 2
            /\ Log[i - 1].op = "blit_render_target"
            /\ Log[i - 2] = [op |-> "output_lock", pipeline_id |-> Log[i].pipeline_id,
                             locked |-> TRUE]
    /\ \A i \in LogIndices("blit_render_target") :
            i > 1 /\ Log[i - 1].op = "output_lock" /\ Log[i - 1].locked

C8_Witness ==
    /\ \E i \in LogIndices("output_lock") : Log[i].locked
    /\ RenderReturned

\* C9: within one render_impl the documents are drawn in ascending layer
\* order, whatever the order their frames were published in.
C9_AscendingLayerOrder ==
    \A i, j \in LogIndices("draw") :
        (i < j /\ SameFrame(i, j)) => Log[i].layer <= Log[j].layer

C9_Witness ==
    /\ RenderReturned
    /\ \E i, j \in LogIndices("draw") :
            i < j /\ Log[i].layer < Log[j].layer /\ Log[i].fid > Log[j].fid

\* C10: no call of CacheTexture::update or CacheTexture::flush lowers the
\* number of rows of the GPU cache.
C10_RowsNeverDecrease ==
    [][Len(cache'.texture.rows) >= Len(cache.texture.rows)]_vars

C10_Witness ==
    /\ Len(cache.texture.rows) = MaxRow + 1
    /\ IsSome(cache.last_flush)
    /\ \E p \in cache.texture.cpu_blocks.nz : p[1] < MAX_VERTEX_TEXTURE_WIDTH

\* C11: after CacheTexture::flush no row of the mirror is dirty.
C11_FlushLeavesNoDirtyRow ==
    IsSome(cache.last_flush) => DirtyRows(cache.texture) = {}

C11_Witness ==
    /\ IsSome(cache.last_flush)
    /\ Cardinality(Unwrap(cache.last_flush).dirty_before) = MaxRow + 1

\* the blocks of row k of the mirror that differ from EMPTY
RowBlocks(ct, k) ==
    {p \in ct.cpu_blocks.nz :
        /\ p[1] >= k * MAX_VERTEX_TEXTURE_WIDTH
        /\ p[1] < (k + 1) * MAX_VERTEX_TEXTURE_WIDTH}

\* C12: a Copy addressed to row r of a mirror of n rows leaves max(n, r + 1)
\* rows with row r dirty; every row added other than r is clean and EMPTY.
C12_GrowthToAddressedRow ==
    (/\ IsSome(cache.last_update)
     /\ Len(Unwrap(cache.last_update).updates.updates) = 1
     /\ ~cache.panicked) =>
        LET r == Unwrap(cache.last_update).updates.updates[1].address.v
            n == Unwrap(cache.last_update).rows_before
        IN  /\ Len(cache.texture.rows) = (IF n >= r + 1 THEN n ELSE r + 1)
            /\ cache.texture.cpu_blocks.len =
                    Len(cache.texture.rows) * MAX_VERTEX_TEXTURE_WIDTH
            /\ cache.texture.rows[r + 1].is_dirty
            /\ \A k \in n .. Len(cache.texture.rows) - 1 :
                    k # r => /\ ~cache.texture.rows[k + 1].is_dirty
                             /\ RowBlocks(cache.texture, k) = {}

C12_Witness ==
    /\ IsSome(cache.last_update)
    /\ ~cache.panicked
    /\ Len(Unwrap(cache.last_update).updates.updates) = 1
    /\ Unwrap(cache.last_update).updates.updates[1].address.v = MaxRow
    /\ Unwrap(cache.last_update).rows_before = 0
    /\ DirtyRows(cache.texture) = {MaxRow}

\* update addresses blocks outside the cache texture
OutOfRange(copy) ==
    \/ copy.address.v >= CacheTexture_get_height
    \/ copy.address.u + copy.block_count > MAX_VERTEX_TEXTURE_WIDTH

\* C18: a Copy whose address lies outside the cache texture (row at or
\* beyond the height 1024, or u + block_count beyond the width 1024) panics:
\* CacheTexture::update never returns after applying it.
C18_OutOfRangeCopyIsFatal ==
    (/\ IsSome(cache.last_update)
     /\ \E i \in DOMAIN Unwrap(cache.last_update).updates.updates :
            OutOfRange(Unwrap(cache.last_update).updates.updates[i])) =>
        cache.panicked

\* C20: flush uploads the rows that were dirty, once each and in row order,
\* each as the 1024 blocks of that row of the mirror at y = row, and returns
\* their number; a flush right after a flush uploads nothing and returns 0.
C20_FlushUploadsDirtyRows ==
    IsSome(cache.last_flush) =>
        LET f == Unwrap(cache.last_flush)
        IN  /\ Len(f.uploads) = Cardinality(f.dirty_before)
            /\ f.rows_dirty = Cardinality(f.dirty_before)
            /\ {f.uploads[k].y : k \in DOMAIN f.uploads} = f.dirty_before
            /\ \A k \in DOMAIN f.uploads :
                    /\ f.uploads[k].width = 1024
                    /\ f.uploads[k].nz = RowBlocks(cache.texture, f.uploads[k].y)
                    /\ RowBlocks([cpu_blocks |-> [nz |-> cache.resource_cache]],
                                 f.uploads[k].y)
                            = RowBlocks(cache.texture, f.uploads[k].y)
            /\ f.repeated => f.uploads = <<>> /\ f.rows_dirty = 0

C20_Witness ==
    /\ IsSome(cache.last_flush)
    /\ Unwrap(cache.last_flush).dirty_before = {MaxRow}
    /\ Len(cache.texture.rows) = MaxRow + 1
    /\ RowBlocks(cache.texture, MaxRow) # {}

\* C13: a list whose (size, layer count, format) is that of a list of the
\* frame before, whose texture was returned to the pool, is given that same
\* texture by the perfect-match phase, and no texture is created for it
C13_PoolRoundTrip ==
    \A list \in resolver.h_lists : \A prev \in resolver.h_returned :
        prev.selector = list.selector =>
            /\ list.perfect = Some(prev.texture)
            /\ ~list.created

\* the position in builder.drawn of the pass that draws a task
DrawnAt(task) == CHOOSE i \in 1 .. Len(builder.drawn) : task \in builder.drawn[i].tasks

\* C14: once passes are assigned, every dependency of a task has a smaller
\* pass index than the task; the passes are drawn in ascending index, every
\* task in the pass of its index, and the main framebuffer pass is drawn last
C14_PassOrdering ==
    /\ builder.phase \in {"assigned", "drawn"} =>
            \A e \in builder.edges :
                builder.pass_index[e[2]] < builder.pass_index[e[1]]
    /\ builder.phase = "drawn" =>
            /\ \A i \in 1 .. Len(builder.drawn) : builder.drawn[i].pass_index = i - 1
            /\ \A t \in builder.tasks :
                    /\ \E i \in 1 .. Len(builder.drawn) : t \in builder.drawn[i].tasks
                    /\ builder.drawn[DrawnAt(t)].pass_index = builder.pass_index[t]
            /\ \A e \in builder.edges : DrawnAt(e[2]) < DrawnAt(e[1])
            /\ \A i \in 1 .. Len(builder.drawn) :
                    builder.drawn[i].kind = "MainFramebuffer" <=> i = Len(builder.drawn)

\* a drawn graph in which a task has two dependencies of different pass index
C14_Witness ==
    /\ builder.phase = "drawn"
    /\ \E e1, e2 \in builder.edges :
            /\ e1[1] = e2[1]
            /\ builder.pass_index[e1[2]] < builder.pass_index[e2[2]]
    /\ Len(builder.drawn) >= 4

AllBatches == {batcher.opaque_batch_list[i] : i \in 1 .. Len(batcher.opaque_batch_list)}
              \cup {batcher.alpha_batch_list[i] : i \in 1 .. Len(batcher.alpha_batch_list)}

RECURSIVE FlattenLists(_)
FlattenLists(lists) ==
    IF lists = <<>> THEN <<>> ELSE Head(lists) \o FlattenLists(Tail(lists))

\* the texture-cache operations of the messages of the channel, in order
RECURSIVE ReceivedUpdates(_)
ReceivedUpdates(msgs) ==
    IF msgs = <<>> THEN <<>>
    ELSE (IF Head(msgs).type = "PublishDocument" THEN Head(msgs).texture_update_list
          ELSE Head(msgs).updates) \o ReceivedUpdates(Tail(msgs))

OpOf(texture_update) == [id |-> texture_update.id, op |-> texture_update.op]

OpsOf(updates) == [i \in 1 .. Len(updates) |-> OpOf(updates[i])]

IsTextureEvent(e) == e.op \in {"init_texture", "upload_texture", "free_texture_storage"}

AppliedOp(e) ==
    [id |-> e.id,
     op |-> CASE e.op = "init_texture" -> "Create"
              [] e.op = "upload_texture" -> "Update"
              [] e.op = "free_texture_storage" -> "Free"]

\* the texture-cache operations a call applied to the device, in order
AppliedOps(log) ==
    [i \in 1 .. Len(SelectSeq(log, IsTextureEvent)) |->
        AppliedOp(SelectSeq(log, IsTextureEvent)[i])]

\* C17: the operations pending before an update() and those it receives are
\* each either applied by it, once and in the order received, or still
\* pending after it, in that order; a render() that draws applies all pending
\* operations in the order received, before its first draw, and leaves the
\* pending list empty
C17_TextureUpdatesInOrder ==
    [][/\ (result_rx # <<>> /\ result_rx' = <<>>) =>
            AppliedOps(renderer'.log) \o OpsOf(FlattenLists(renderer'.pending_texture_updates))
                = OpsOf(FlattenLists(renderer.pending_texture_updates)
                        \o ReceivedUpdates(result_rx))
       /\ (result_rx' = result_rx /\ renderer'.last_call = "render"
                /\ renderer.active_documents # <<>>) =>
            /\ AppliedOps(renderer'.log)
                    = OpsOf(FlattenLists(renderer.pending_texture_updates))
            /\ renderer'.pending_texture_updates = <<>>
            /\ \A i, j \in 1 .. Len(renderer'.log) :
                    IsTextureEvent(renderer'.log[i]) /\ renderer'.log[j].op = "draw"
                        => i < j]_vars

\* render() has returned and the only active document has a frame without
\* passes
RenderedEmptyFrame ==
    /\ ~renderer.panicked
    /\ renderer.last_call = "render"
    /\ Len(renderer.active_documents) = 1
    /\ renderer.active_documents[1].frame.passes = <<>>

\* what the draw step does on the device: targets bound, blits and draw calls
DrawStepOps == {"draw", "output_lock", "blit_render_target", "output_unlock"}

\* C16 as stated: a frame without passes is marked has_been_rendered, and
\* neither a draw call nor an upload is made for it
C16_EmptyFrameNoGpuWork ==
    RenderedEmptyFrame =>
        /\ renderer.active_documents[1].frame.has_been_rendered
        /\ \A k \in 1 .. Len(renderer.log) :
                renderer.log[k].op \notin DrawStepOps \cup {"update_resource_cache"}

\* C16, amended: a frame without passes is marked has_been_rendered and the
\* draw step issues no draw call, binds no target and counts no target for
\* it; the GPU-cache updates that came with the frame are still uploaded by
\* prepare_gpu_cache, before the draw step
C16_EmptyFrameNoDraw ==
    RenderedEmptyFrame =>
        /\ renderer.active_documents[1].frame.has_been_rendered
        /\ ~renderer.active_documents[1].frame.h_drawn
        /\ \A k \in 1 .. Len(renderer.log) : renderer.log[k].op \notin DrawStepOps
        /\ renderer.stats = RendererStats_empty
        /\ renderer.pending_gpu_cache_updates = <<>>
        /\ DirtyRows(renderer.gpu_cache_texture) = {}

\* the only frame published has no pass; it was rendered and its GPU-cache
\* row was uploaded
C16_Witness ==
    /\ RenderedEmptyFrame
    /\ backend.next_fid = 2
    /\ \E k \in 1 .. Len(renderer.log) : renderer.log[k].op = "update_resource_cache"

\* the frames active_documents holds for a document id
FramesOf(active_documents, document_id) ==
    {active_documents[i].frame.fid :
        i \in {j \in 1 .. Len(active_documents) : active_documents[j].id = document_id}}

\* C19: an update() that processes one PublishDocument(D, doc) leaves doc as
\* the frame of D in active_documents and leaves the frame of every other
\* document id as it was
C19_PublishChangesOnlyItsEntry ==
    [][(/\ Len(result_rx) = 1
        /\ result_rx[1].type = "PublishDocument"
        /\ result_rx' = <<>>
        /\ ~renderer'.panicked) =>
            /\ FramesOf(renderer'.active_documents, result_rx[1].document_id)
                    = {result_rx[1].doc.frame.fid}
            /\ \A other \in DocumentIds \ {result_rx[1].document_id} :
                    FramesOf(renderer'.active_documents, other)
                        = FramesOf(renderer.active_documents, other)]_vars

\* the events of the trace with the given op, as indices
OpIndices(op) == {k \in 1 .. Len(renderer.log) : renderer.log[k].op = op}

\* the trace positions that belong to the prepare_gpu_cache call begun at k
CallRange(k) ==
    {j \in k + 1 .. Len(renderer.log) :
        \A m \in k + 1 .. j : renderer.log[m].op # "prepare_gpu_cache"}

\* in the call begun at k: one prepare_for_updates, whose max_height covers
\* every pending list, then one update per pending list in queue order,
\* then the flush
PreparedOnceThenAppliedInOrder(k) ==
    /\ Cardinality(OpIndices("prepare_for_updates") \cap CallRange(k)) = 1
    /\ Cardinality(OpIndices("gpu_cache_flush") \cap CallRange(k)) = 1
    /\ \A p \in OpIndices("prepare_for_updates") \cap CallRange(k) :
            LET pending == renderer.log[p].h_pending
                n == Len(pending)
            IN  /\ \A j \in 1 .. n : pending[j].height <= renderer.log[p].max_height
                /\ OpIndices("gpu_cache_update") \cap CallRange(k) = p + 1 .. p + n
                /\ \A j \in 1 .. n : renderer.log[p + j].list = pending[j]
                /\ OpIndices("gpu_cache_flush") \cap CallRange(k) = {p + n + 1}

\* C21: in prepare_gpu_cache, prepare_for_updates is called exactly once and
\* before any CacheTexture::update, with a max_height that is at least the
\* height of every pending list, so the assertion on the height never fails;
\* the pending lists are applied in queue order, the queue is left empty and
\* flush runs only after the last update
C21_PrepareOnceBeforeUpdates ==
    /\ OpIndices("assert_height_failed") = {}
    /\ ~renderer.panicked =>
            /\ \A k \in OpIndices("prepare_gpu_cache") :
                    PreparedOnceThenAppliedInOrder(k)
            /\ (renderer.last_call = "render" /\ OpIndices("prepare_gpu_cache") # {})
                    => renderer.pending_gpu_cache_updates = <<>>

\* a render applied two pending lists, one of them asking for a texture higher
\* than the current one
C21_Witness ==
    /\ ~renderer.panicked
    /\ renderer.last_call = "render"
    /\ \E p \in OpIndices("prepare_for_updates") :
            /\ Len(renderer.log[p].h_pending) >= 2
            /\ renderer.log[p].max_height > CacheTexture_get_height
            /\ renderer.log[p].h_pending[1] # renderer.log[p].h_pending[2]

\* C22: every row of the mirror whose blocks differ from what the GPU
\* texture holds is marked dirty (a Copy touches row address.v only, and that
\* row is the one it marks)
C22_StaleRowsAreDirty ==
    ~cache.panicked =>
        \A row \in 0 .. Len(cache.texture.rows) - 1 :
            RowBlocks(cache.texture, row)
                    # RowBlocks([cpu_blocks |-> [nz |-> cache.resource_cache]], row)
                => row \in DirtyRows(cache.texture)

\* the selector the perfect-match scan builds for a pooled texture
TextureSelector(texture) ==
    TargetSelector(Texture_get_dimensions(texture),
                   Texture_get_render_target_layer_count(texture),
                   Texture_get_format(texture))

\* no texture of the pool has the selector of a list of the frame
NoPerfectMatch(render_target_pool, passes) ==
    \A list \in FrameLists(passes) : \A i \in 1 .. Len(render_target_pool) :
        list.targets > 0 => TextureSelector(render_target_pool[i]) # ListSelector(list)

\* C23: the perfect-match phase gives a list a texture only if that texture
\* was in the pool with the list's size, layer count and format; it creates
\* no texture, and when no pooled texture matches it leaves every list
\* without a texture and the pool as it was
C23_PerfectMatchOnly ==
    IsSome(resolver.h_perfect_phase) =>
        LET phase == Unwrap(resolver.h_perfect_phase)
        IN  /\ \A list \in FrameLists(phase.passes) :
                    IsSome(list.texture) =>
                        \E i \in 1 .. Len(phase.pool_before) :
                            /\ phase.pool_before[i].id = Unwrap(list.texture).id
                            /\ TextureSelector(phase.pool_before[i]) = ListSelector(list)
            /\ phase.next_after = phase.next_before
            /\ NoPerfectMatch(phase.pool_before, phase.passes) =>
                    /\ \A list \in FrameLists(phase.passes) : list.texture = None
                    /\ phase.pool_after = phase.pool_before

\* the perfect-match phase scanned a pool that holds a texture of the size of
\* a list of the frame, found no match and left the list without a texture
C23_Witness ==
    /\ IsSome(resolver.h_perfect_phase)
    /\ LET phase == Unwrap(resolver.h_perfect_phase)
       IN  /\ NoPerfectMatch(phase.pool_before, phase.passes)
           /\ \E list \in FrameLists(phase.passes) :
                    /\ list.targets > 0
                    /\ list.texture = None
                    /\ \E i \in 1 .. Len(phase.pool_before) :
                            Texture_get_dimensions(phase.pool_before[i]) = list.max_size

\* the off-screen lists of a frame, as <<pass, "alpha" or "color">>
ListPositions(passes) ==
    {q \in 1 .. Len(passes) : passes[q].kind = "OffScreen"} \X {"alpha", "color"}

\* the pooled textures of a format, as positions in the pool
OfFormat(render_target_pool, format) ==
    {i \in 1 .. Len(render_target_pool) :
        Texture_get_format(render_target_pool[i]) = format}

\* the list holds a texture of its size with one layer per target
HoldsInitialisedTexture(list) ==
    /\ IsSome(list.texture)
    /\ Texture_get_dimensions(Unwrap(list.texture)) = list.max_size
    /\ Unwrap(list.texture).layer_count = list.targets

\* the texture of the list is the first of its format in the pool its search
\* saw, or a new one when the pool had none of that format
ReusedOrCreated(list, next_before) ==
    IF OfFormat(list.h_pool, list.format) # {}
        THEN /\ ~list.h_created
             /\ \E i \in OfFormat(list.h_pool, list.format) :
                    /\ \A j \in OfFormat(list.h_pool, list.format) : i <= j
                    /\ list.h_pool[i].id = Unwrap(list.texture).id
        ELSE /\ list.h_created
             /\ Unwrap(list.texture).id >= next_before
             /\ Unwrap(list.texture).id \notin PoolIds(list.h_pool)

\* C24: the fallback phase never fails: after bind_frame_data every
\* off-screen list with a target holds a texture initialised to its size and
\* number of targets; a list the perfect-match phase served keeps that
\* texture, another list takes the first pooled texture of its format, and
\* a new texture is created for it when the pool has none
C24_FallbackNeverFails ==
    /\ ~resolver.panicked
    /\ IsSome(resolver.h_fallback_phase) =>
        LET perfect == Unwrap(resolver.h_perfect_phase)
            fallback == Unwrap(resolver.h_fallback_phase)
        IN  \A at \in ListPositions(fallback.passes) :
                fallback.passes[at[1]][at[2]].targets > 0 =>
                    /\ HoldsInitialisedTexture(fallback.passes[at[1]][at[2]])
                    /\ IF IsSome(perfect.passes[at[1]][at[2]].texture)
                         THEN fallback.passes[at[1]][at[2]].texture
                                = perfect.passes[at[1]][at[2]].texture
                         ELSE ReusedOrCreated(fallback.passes[at[1]][at[2]],
                                              perfect.next_after)

\* the fallback phase found a pool without a texture of the list's format and
\* created a texture for the list; the frame was drawn and the texture is back
\* in the pool
C24_Witness ==
    /\ ~resolver.panicked
    /\ IsSome(resolver.h_fallback_phase)
    /\ \E at \in ListPositions(Unwrap(resolver.h_fallback_phase).passes) :
            LET list == Unwrap(resolver.h_fallback_phase).passes[at[1]][at[2]]
            IN  /\ list.targets = 2
                /\ list.h_created
                /\ list.h_pool # <<>>
                /\ HoldsInitialisedTexture(list)
                /\ Unwrap(list.texture).id \in PoolIds(resolver.render_target_pool)

\* positions of the render's trace: the perfect-match scans, and what must
\* come after all of them
PerfectScans ==
    {k \in 1 .. Len(resolver.h_log) :
        /\ resolver.h_log[k].op = "prepare_target_list"
        /\ resolver.h_log[k].perfect_only}

FallbackAllocations ==
    {k \in 1 .. Len(resolver.h_log) :
        /\ resolver.h_log[k].op = "prepare_target_list"
        /\ ~resolver.h_log[k].perfect_only}

PoolOps(op) == {k \in 1 .. Len(resolver.h_log) : resolver.h_log[k].op = op}

\* C25: in a render, the perfect-match scan of every off-screen target list of
\* every active document comes before any fallback allocation, any drawn pass
\* and any return of a texture to the pool
C25_PerfectScansFirst ==
    /\ \A i \in PerfectScans :
        \A j \in FallbackAllocations \cup PoolOps("draw_pass")
                    \cup PoolOps("render_target_pool_push") : i < j
    /\ \A d \in 1 .. Len(resolver.frames) :
        \A at \in ListPositions(resolver.frames[d]) :
            \E k \in PerfectScans :
                /\ resolver.h_log[k].doc = d
                /\ resolver.h_log[k].pass = at[1] - 1
                /\ resolver.h_log[k].which = at[2]

\* two documents with off-screen targets were rendered: the textures of the
\* first were back in the pool when the second had its fallback allocation
C25_Witness ==
    /\ ~resolver.panicked
    /\ Len(resolver.frames) = 2
    /\ Cardinality(PerfectScans) >= 4
    /\ \E i \in PoolOps("render_target_pool_push") : \E j \in FallbackAllocations :
            /\ resolver.h_log[i].doc = 1
            /\ resolver.h_log[j].doc = 2
            /\ i < j

\* the position in the trace where pass `pass` of document d was drawn
DrawPassAt(d, pass) ==
    {k \in PoolOps("draw_pass") :
        resolver.h_log[k].doc = d /\ resolver.h_log[k].pass = pass}

\* the outputs of the drawn passes, as [at, format, texture]: `at` is the
\* position in the trace where the pass was drawn
PassOutputs ==
    {[at |-> k, format |-> "A8", texture |-> Unwrap(resolver.h_log[k].alpha)] :
        k \in {j \in PoolOps("draw_pass") : IsSome(resolver.h_log[j].alpha)}}
    \cup {[at |-> k, format |-> "RGBA8", texture |-> Unwrap(resolver.h_log[k].color)] :
        k \in {j \in PoolOps("draw_pass") : IsSome(resolver.h_log[j].color)}}

\* the pushes of an output to the pool, recorded under the index of its pass
PushesOf(out) ==
    {j \in PoolOps("render_target_pool_push") :
        /\ resolver.h_log[j].texture = out.texture
        /\ resolver.h_log[j].format = out.format
        /\ resolver.h_log[j].doc = resolver.h_log[out.at].doc
        /\ resolver.h_log[j].pass_index = resolver.h_log[out.at].pass}

\* the format a RenderTaskCache source asks for
SourceFormat(texture_id) ==
    IF texture_id.kind = "RenderTaskCacheA8" THEN "A8" ELSE "RGBA8"

\* the outputs a bind of RenderTaskCache*(N) at position b asks for
AskedOutputs(b) ==
    {out \in PassOutputs :
        /\ out.format = SourceFormat(resolver.h_log[b].texture_id)
        /\ resolver.h_log[out.at].doc = resolver.h_log[b].doc
        /\ resolver.h_log[out.at].pass = resolver.h_log[b].texture_id.pass_index}

\* the bind at position b put the texture on the sampler
BoundTo(b, texture) ==
    /\ b + 1 <= Len(resolver.h_log)
    /\ resolver.h_log[b + 1].op = "bind_texture"
    /\ resolver.h_log[b + 1].texture = texture

\* C26 as stated: when pass N ends its output textures are pushed to the pool
\* under index N, before pass N + 1 is drawn, and in every later pass
\* RenderTaskCacheRGBA8(N) / RenderTaskCacheA8(N) binds that texture without
\* a panic
C26_OutputsPooledAtEndOfPass ==
    /\ \A out \in PassOutputs :
            \E j \in PushesOf(out) :
                /\ out.at < j
                /\ \A k \in DrawPassAt(resolver.h_log[out.at].doc,
                                       resolver.h_log[out.at].pass + 1) : j < k
    /\ \A b \in PoolOps("bind") :
            resolver.h_log[b].texture_id.pass_index < resolver.h_log[b].pass =>
                \A out \in AskedOutputs(b) : BoundTo(b, out.texture)

\* C26, amended: the output textures of pass N are the cache textures during
\* pass N + 1 and are pushed to the pool under index N when pass N + 1 ends
\* (or the frame, if N is its last pass); from pass N + 2 on
\* RenderTaskCacheRGBA8(N) / RenderTaskCacheA8(N) binds the texture pass N
\* drew into, while in pass N + 1 the index has no entry yet and the bind
\* panics
C26_OutputsPooledAfterNextPass ==
    /\ ~resolver.panicked =>
            \A out \in PassOutputs :
                /\ Cardinality(PushesOf(out)) = 1
                /\ \A j \in PushesOf(out) :
                        /\ out.at < j
                        /\ \A k \in DrawPassAt(resolver.h_log[out.at].doc,
                                               resolver.h_log[out.at].pass + 1) : k < j
                        /\ \A k \in DrawPassAt(resolver.h_log[out.at].doc,
                                               resolver.h_log[out.at].pass + 2) : j < k
    /\ \A b \in PoolOps("bind") :
            IF resolver.h_log[b].texture_id.pass_index + 2 <= resolver.h_log[b].pass
                THEN \A out \in AskedOutputs(b) : BoundTo(b, out.texture)
                ELSE /\ resolver.panicked
                     /\ resolver.h_log[b + 1].op = "bind_failed"

\* the third pass of a frame bound the color output of its first pass by pass
\* index, through the pool
C26_Witness ==
    /\ ~resolver.panicked
    /\ \E b \in PoolOps("bind") :
            /\ resolver.h_log[b].texture_id = RenderTaskCacheRGBA8(0)
            /\ resolver.h_log[b].pass = 2
            /\ \E out \in AskedOutputs(b) :
                    /\ BoundTo(b, out.texture)
                    /\ PushesOf(out) # {}
                    /\ \A j \in PushesOf(out) : j < b

\* what CacheA8 / CacheRGBA8 must show while the pass at position k of the
\* trace is drawn: the output of the pass before it in the same frame, or the
\* dummy cache texture
ExpectedCache(k, output) ==
    IF \E j \in DrawPassAt(resolver.h_log[k].doc, resolver.h_log[k].pass - 1) :
            IsSome(resolver.h_log[j][output])
        THEN {resolver.h_log[j][output] :
                j \in DrawPassAt(resolver.h_log[k].doc, resolver.h_log[k].pass - 1)}
        ELSE {Some(resolver.dummy_cache_texture.id)}

\* C27: while pass i of a frame is drawn, CacheA8 and CacheRGBA8 show the
\* alpha and color output of pass i - 1 of that frame, and the dummy cache
\* texture in pass 0 or when pass i - 1 had no output of that format
C27_CacheIsPreviousPassOutput ==
    \A k \in PoolOps("draw_pass") :
        /\ resolver.h_log[k].samplers["CacheA8"] \in ExpectedCache(k, "alpha")
        /\ resolver.h_log[k].samplers["CacheRGBA8"] \in ExpectedCache(k, "color")

\* the second document's third pass was drawn with the alpha output of its
\* second pass as CacheA8 and, that pass having no color output, the dummy
\* texture as CacheRGBA8; its first pass was drawn with the dummy texture
\* although the first document had left outputs
C27_Witness ==
    /\ ~resolver.panicked
    /\ \E k \in DrawPassAt(2, 2) : \E j \in DrawPassAt(2, 1) :
            /\ IsSome(resolver.h_log[j].alpha)
            /\ resolver.h_log[k].samplers["CacheA8"] = resolver.h_log[j].alpha
            /\ resolver.h_log[j].color = None
            /\ resolver.h_log[k].samplers["CacheRGBA8"]
                    = Some(resolver.dummy_cache_texture.id)
    /\ \E k \in DrawPassAt(2, 0) :
            resolver.h_log[k].samplers["CacheA8"] = Some(resolver.dummy_cache_texture.id)
    /\ \E j \in DrawPassAt(1, 0) : IsSome(resolver.h_log[j].alpha)

\* the binds of the SharedCacheA8 sampler in the render's trace
SharedBinds ==
    {b \in PoolOps("bind_texture") : resolver.h_log[b].sampler = "SharedCacheA8"}

\* C28: once pass 0 of a frame is complete the SharedCacheA8 sampler shows
\* the alpha output of pass 0 (the dummy cache texture if pass 0 has none),
\* and no later pass of the frame binds it again: every later pass is drawn
\* with the first pass's A8 output on it
C28_SharedA8IsFirstPassOutput ==
    /\ \A b \in SharedBinds :
            /\ resolver.h_log[b].pass = 0
            /\ \E k \in DrawPassAt(resolver.h_log[b].doc, 0) :
                    /\ k < b
                    /\ IsSome(resolver.h_log[k].alpha) =>
                            resolver.h_log[k].alpha = Some(resolver.h_log[b].texture)
                    /\ ~IsSome(resolver.h_log[k].alpha) =>
                            resolver.h_log[b].texture = resolver.dummy_cache_texture.id
    /\ \A k \in PoolOps("draw_pass") :
            resolver.h_log[k].pass > 0 =>
                /\ \E b \in SharedBinds :
                        /\ b < k
                        /\ resolver.h_log[b].doc = resolver.h_log[k].doc
                        /\ resolver.h_log[k].samplers["SharedCacheA8"]
                                = Some(resolver.h_log[b].texture)
                /\ Cardinality({b \in SharedBinds :
                                    resolver.h_log[b].doc = resolver.h_log[k].doc}) = 1

\* the third pass of a frame was drawn with the alpha output of the first
\* pass on SharedCacheA8, the second pass having an alpha output of its own
C28_Witness ==
    /\ ~resolver.panicked
    /\ \E d \in 1 .. Len(resolver.frames) :
        \E k \in DrawPassAt(d, 2) : \E j \in DrawPassAt(d, 1) : \E i \in DrawPassAt(d, 0) :
            /\ IsSome(resolver.h_log[i].alpha)
            /\ IsSome(resolver.h_log[j].alpha)
            /\ resolver.h_log[j].alpha # resolver.h_log[i].alpha
            /\ resolver.h_log[k].samplers["SharedCacheA8"] = resolver.h_log[i].alpha

----------------------------------------------------------------------------
(* The depth clear.                                                        *)

\* the documents of a render that draw to the main framebuffer with depth
DepthDocuments ==
    {i \in 1 .. Len(renderer.active_documents) :
        /\ renderer.active_documents[i].frame.passes # <<>>
        /\ \E p \in 1 .. Len(renderer.active_documents[i].frame.passes) :
            /\ renderer.active_documents[i].frame.passes[p].kind = "MainFramebuffer"
            /\ renderer.active_documents[i].frame.passes[p].target.needs_depth}

\* the device pixels of a rect
Pixels(rect) ==
    (rect.x .. rect.x + rect.width - 1) \X (rect.y .. rect.y + rect.height - 1)

\* two documents that need depth cover a common pixel
DepthDocumentsIntersect ==
    \E i \in DepthDocuments : \E j \in DepthDocuments :
        /\ i # j
        /\ Pixels(renderer.active_documents[i].frame.inner_rect)
            \cap Pixels(renderer.active_documents[j].frame.inner_rect) # {}

\* the positions of the log where a depth clear of the given target is
\* asked of the device
DepthClears(target) ==
    {k \in 1 .. Len(renderer.log) :
        /\ renderer.log[k].op = "clear_target"
        /\ renderer.log[k].target = target
        /\ renderer.log[k].depth}

\* the positions of the log where the device clears the depth of the target
DepthCleared(target) ==
    {k \in 1 .. Len(renderer.log) :
        /\ renderer.log[k].op = "clear_target"
        /\ renderer.log[k].target = target
        /\ renderer.log[k].depth_cleared}

FramebufferRendered ==
    /\ renderer.last_call = "render"
    /\ ~renderer.panicked
    /\ renderer.active_documents # <<>>

\* the depth-clear policy over the clears Clears(target): when no two
\* documents that draw to the main framebuffer with depth intersect, there
\* is one clear of the whole framebuffer before any document is drawn and no
\* clear by a document; when two of them intersect, there is no up-front
\* clear and every document that needs depth has a clear right before its
\* own main framebuffer draw
DepthClearPolicy(Clears(_)) ==
    FramebufferRendered =>
        IF DepthDocumentsIntersect
        THEN /\ Clears("framebuffer") = {}
             /\ \A i \in DepthDocuments :
                    \E k \in Clears("main") :
                        /\ renderer.log[k].fid = renderer.active_documents[i].frame.fid
                        /\ k < Len(renderer.log)
                        /\ renderer.log[k + 1].op = "draw"
                        /\ renderer.log[k + 1].target = "main"
                        /\ renderer.log[k + 1].fid = renderer.log[k].fid
             /\ \A k \in Clears("main") :
                    \E i \in DepthDocuments :
                        renderer.log[k].fid = renderer.active_documents[i].frame.fid
        ELSE /\ Cardinality(Clears("framebuffer")) = 1
             /\ Clears("main") = {}
             /\ \A k \in Clears("framebuffer") :
                    \A d \in 1 .. Len(renderer.log) :
                        renderer.log[d].op = "draw" => k < d

\* C29: the depth buffer is cleared by the depth-clear policy: once up front
\* if and only if no two documents that need depth intersect, and otherwise
\* by each such document when its own main target is drawn
C29_DepthClearPolicy == DepthClearPolicy(DepthCleared)

\* the depth clears that the renderer asks of the device follow the policy
DepthClearRequestsFollowPolicy == DepthClearPolicy(DepthClears)

\* two intersecting documents that need depth were rendered, each clearing
\* depth for itself
C29_Witness ==
    /\ FramebufferRendered
    /\ DepthDocumentsIntersect
    /\ Cardinality(DepthClears("main")) = 2
    /\ DepthClears("framebuffer") = {}

----------------------------------------------------------------------------
(* Texture-cache targets and has_been_rendered.                            *)

ActiveFramesOf(r) == {r.active_documents[i].frame : i \in 1 .. Len(r.active_documents)}

\* the positions of the log where the target of the given kind, pass and
\* index of frame fid is drawn
DrawsOf(log, fid, kind, pass_index, target_index) ==
    {k \in 1 .. Len(log) :
        /\ log[k].op = "draw"
        /\ log[k].fid = fid
        /\ log[k].target = kind
        /\ log[k].pass = pass_index
        /\ log[k].index = target_index}

FrameDraws(log, fid, kinds) ==
    {k \in 1 .. Len(log) :
        log[k].op = "draw" /\ log[k].fid = fid /\ log[k].target \in kinds}

OffScreenPasses(frame) ==
    {p \in 1 .. Len(frame.passes) : frame.passes[p].kind = "OffScreen"}

\* every texture-cache target of the frame is drawn exactly times times
TextureCacheTargetsDrawn(log, frame, times) ==
    \A p \in OffScreenPasses(frame) :
        \A t \in 1 .. Len(frame.passes[p].texture_cache) :
            Cardinality(DrawsOf(log, frame.fid, "texture_cache", p - 1, t - 1)) = times

\* every alpha and color target of the frame is drawn at least once
AlphaAndColorTargetsDrawn(log, frame) ==
    \A p \in OffScreenPasses(frame) :
        /\ \A t \in 1 .. Len(frame.passes[p].alpha.targets) :
                DrawsOf(log, frame.fid, "alpha", p - 1, t - 1) # {}
        /\ \A t \in 1 .. Len(frame.passes[p].color.targets) :
                DrawsOf(log, frame.fid, "color", p - 1, t - 1) # {}

\* a call of update() or render() that returned
CallReturned ==
    /\ renderer' # renderer
    /\ renderer'.last_call \in {"update", "render"}
    /\ ~renderer'.panicked

\* C30: over every call, for a frame that the renderer holds before and
\* after it: has_been_rendered never returns to false; a frame that had it
\* set has no texture-cache target drawn; a frame that gets it set has every
\* texture-cache target drawn exactly once; a frame that still has it clear
\* had nothing drawn; and a render() leaves it set and draws every alpha
\* and color target, redraw or not
C30_TextureCacheDrawnOnlyFirst ==
    [][CallReturned =>
        \A f \in ActiveFramesOf(renderer) : \A g \in ActiveFramesOf(renderer') :
            f.fid = g.fid =>
                /\ f.has_been_rendered => g.has_been_rendered
                /\ f.has_been_rendered =>
                        FrameDraws(renderer'.log, f.fid, {"texture_cache"}) = {}
                /\ (~f.has_been_rendered /\ g.has_been_rendered) =>
                        TextureCacheTargetsDrawn(renderer'.log, f, 1)
                /\ ~g.has_been_rendered =>
                        FrameDraws(renderer'.log, f.fid,
                                   {"texture_cache", "alpha", "color", "main"}) = {}
                /\ renderer'.last_call = "render" =>
                        /\ g.has_been_rendered
                        /\ AlphaAndColorTargetsDrawn(renderer'.log, f)]_vars

\* a render() has redrawn a frame with texture-cache targets: its alpha and
\* color targets are drawn again, its texture-cache targets are not
C30_Witness ==
    /\ renderer.last_call = "render"
    /\ ~renderer.panicked
    /\ \E f \in ActiveFramesOf(renderer) :
        /\ f.has_texture_cache_tasks
        /\ f.has_been_rendered
        /\ FrameDraws(renderer.log, f.fid, {"texture_cache"}) = {}
        /\ FrameDraws(renderer.log, f.fid, {"alpha"}) # {}
        /\ FrameDraws(renderer.log, f.fid, {"color"}) # {}

----------------------------------------------------------------------------
(* The order of the batches on a color target.                             *)

ColorTargetDrawn == batcher.phase = "color" /\ ~batcher.panicked

\* the positions of the device calls that draw the given instances
DrawsOfInstances(instances) ==
    {k \in 1 .. Len(batcher.device_log) :
        /\ batcher.device_log[k].op = "draw"
        /\ batcher.device_log[k].instances = instances}

OpaqueDraws(i) == DrawsOfInstances(batcher.opaque_batch_list[i].instances)
AlphaDraws(i) == DrawsOfInstances(batcher.alpha_batch_list[i].instances)

\* C31: on a color target that was drawn, every opaque batch is drawn once,
\* with depth test and depth write enabled, later-recorded opaque batches
\* first; every alpha batch is drawn, after all opaque batches, in the
\* recorded order, and never with depth write enabled
C31_OpaqueReversedThenAlphaInOrder ==
    ColorTargetDrawn =>
        /\ \A i \in 1 .. Len(batcher.opaque_batch_list) :
            /\ Cardinality(OpaqueDraws(i)) = 1
            /\ \A k \in OpaqueDraws(i) :
                /\ batcher.device_log[k].depth_test
                /\ batcher.device_log[k].depth_write
            /\ \A j \in i + 1 .. Len(batcher.opaque_batch_list) :
                \A k \in OpaqueDraws(i) : \A l \in OpaqueDraws(j) : l < k
            /\ \A j \in 1 .. Len(batcher.alpha_batch_list) :
                \A k \in OpaqueDraws(i) : \A l \in AlphaDraws(j) : k < l
        /\ \A i \in 1 .. Len(batcher.alpha_batch_list) :
            /\ AlphaDraws(i) # {}
            /\ \A k \in AlphaDraws(i) : ~batcher.device_log[k].depth_write
            /\ \A j \in i + 1 .. Len(batcher.alpha_batch_list) :
                \A k \in AlphaDraws(i) : \A l \in AlphaDraws(j) : k < l

\* two opaque batches and an alpha batch were drawn on a color target
C31_Witness ==
    /\ ColorTargetDrawn
    /\ Len(batcher.opaque_batch_list) >= 2
    /\ Len(batcher.alpha_batch_list) >= 1
    /\ \A i \in 1 .. Len(batcher.opaque_batch_list) : OpaqueDraws(i) # {}
    /\ \A i \in 1 .. Len(batcher.alpha_batch_list) : AlphaDraws(i) # {}

----------------------------------------------------------------------------
(* Text runs.                                                              *)

TextRunBatches ==
    {i \in 1 .. Len(batcher.alpha_batch_list) :
        batcher.alpha_batch_list[i].key.kind.tag = "TextRun"}

\* the draws a text run takes, by its blend mode
TextRunDrawCount(blend_mode) ==
    CASE blend_mode = "SubpixelVariableTextColor" -> 2
      [] blend_mode = "SubpixelWithBgColor" -> 3
      [] OTHER -> 1

SetMax(S) == CHOOSE x \in S : \A y \in S : y <= x

\* C32: no batch drawn by submit_batch is a text run; on a color target that
\* was drawn, every text-run batch has 1, 2 or 3 draws by its blend mode,
\* each by the text-run branch, each right after the call that sets the
\* blend function of its own pass with blending enabled, and the call after
\* the last of them disables blending
C32_TextRunsDrawnByTheirOwnBranch ==
    /\ \A d \in 1 .. Len(batcher.drawn) : batcher.drawn[d].program.kind.tag # "TextRun"
    /\ ColorTargetDrawn =>
        \A i \in TextRunBatches :
            /\ Cardinality(AlphaDraws(i))
                    = TextRunDrawCount(batcher.alpha_batch_list[i].key.blend_mode)
            /\ Cardinality({batcher.device_log[k].mode : k \in AlphaDraws(i)})
                    = TextRunDrawCount(batcher.alpha_batch_list[i].key.blend_mode)
            /\ \A k \in AlphaDraws(i) :
                /\ batcher.device_log[k].source = "text_run"
                /\ batcher.device_log[k - 1].op = "set_blend_mode"
                /\ batcher.device_log[k - 1].value = batcher.device_log[k].mode
                /\ batcher.device_log[k].blend = batcher.device_log[k].mode
            /\ batcher.device_log[SetMax(AlphaDraws(i)) + 1]
                    = [op |-> "set_blend", value |-> FALSE]

\* a three-pass text run was drawn before a batch that went through
\* submit_batch
C32_Witness ==
    /\ ColorTargetDrawn
    /\ \E i \in TextRunBatches :
        /\ batcher.alpha_batch_list[i].key.blend_mode = "SubpixelWithBgColor"
        /\ Cardinality(AlphaDraws(i)) = 3
        /\ i < Len(batcher.alpha_batch_list)
        /\ batcher.alpha_batch_list[i + 1].key.kind.tag = "Brush"
        /\ batcher.drawn # <<>>

----------------------------------------------------------------------------
(* Composite batches.                                                      *)

CompositeBatches ==
    {i \in 1 .. Len(batcher.alpha_batch_list) :
        batcher.alpha_batch_list[i].key.kind.tag = "Composite"}

\* C33: on a color target that was drawn, every Composite batch has one
\* instance and one draw; the four device calls before the draw bind the
\* layer of the readback task in the cache texture as draw target, bind the
\* pass's render target as read target, blit, and bind the pass's render
\* target as draw target again, so the batch is drawn to the pass's target
C33_ReadbackBeforeCompositeDraw ==
    ColorTargetDrawn =>
        \A i \in CompositeBatches :
            /\ Len(batcher.alpha_batch_list[i].instances) = 1
            /\ Cardinality(AlphaDraws(i)) = 1
            /\ \A k \in AlphaDraws(i) :
                /\ k > 4
                /\ batcher.device_log[k - 4] =
                    [op |-> "bind_draw_target",
                     value |-> <<"cache_rgba8",
                                 readback_layer(
                                    batcher.alpha_batch_list[i].key.kind.backdrop_id)>>]
                /\ batcher.device_log[k - 3] =
                    [op |-> "bind_read_target", value |-> batcher.render_target]
                /\ batcher.device_log[k - 2].op = "blit_render_target"
                /\ batcher.device_log[k - 1] =
                    [op |-> "bind_draw_target", value |-> batcher.render_target]
                /\ batcher.device_log[k].draw_target = batcher.render_target
                /\ Len(batcher.device_log[k].instances) = 1

\* a Composite batch whose readback task is on layer 1 was drawn on an
\* off-screen target after another batch
C33_Witness ==
    /\ ColorTargetDrawn
    /\ IsSome(batcher.render_target)
    /\ \E i \in CompositeBatches :
        /\ i > 1
        /\ readback_layer(batcher.alpha_batch_list[i].key.kind.backdrop_id) = 1
        /\ AlphaDraws(i) # {}

----------------------------------------------------------------------------
(* The blend state under the alpha batches.                                *)

\* C34: every batch drawn by submit_batch is drawn with the device's blend
\* state equal to the blend mode of its key: blending disabled for
\* BlendMode::None, and otherwise enabled with the function of the mode
C34_BlendStateMatchesBatch ==
    \A k \in 1 .. Len(batcher.device_log) :
        (batcher.device_log[k].op = "draw" /\ batcher.device_log[k].source = "submit_batch")
            => batcher.device_log[k].blend = batcher.device_log[k].key.blend_mode

\* a brush batch was drawn with the blend mode that the batch before a text
\* run had set, the text run having reset the device in between
C34_Witness ==
    /\ ColorTargetDrawn
    /\ Len(batcher.alpha_batch_list) = 3
    /\ batcher.alpha_batch_list[1].key.kind.tag = "Brush"
    /\ batcher.alpha_batch_list[1].key.blend_mode = "Alpha"
    /\ batcher.alpha_batch_list[2].key.kind.tag = "TextRun"
    /\ batcher.alpha_batch_list[3].key.kind.tag = "Brush"
    /\ batcher.alpha_batch_list[3].key.blend_mode = "Alpha"
    /\ \A k \in AlphaDraws(3) : batcher.device_log[k].blend = "Alpha"
    /\ AlphaDraws(3) # {}

----------------------------------------------------------------------------
(* The separable blur.                                                     *)

TargetDrawn == batcher.phase \in {"color", "alpha"} /\ ~batcher.panicked

\* the instance lists of the draws of the given blur pass
BlurDraws(source) ==
    {batcher.device_log[k].instances :
        k \in {l \in 1 .. Len(batcher.device_log) :
                /\ batcher.device_log[l].op = "draw"
                /\ batcher.device_log[l].source = source}}

\* C35: on every target that was drawn, color or alpha, the vertical-blur
\* draw submits the target's vertical_blurs and the horizontal-blur draw
\* submits the target's horizontal_blurs
C35_BlurDrawsSubmitTheirOwnInstances ==
    TargetDrawn =>
        /\ BlurDraws("vertical_blur") =
                IF batcher.vertical_blurs = <<>> THEN {} ELSE {batcher.vertical_blurs}
        /\ BlurDraws("horizontal_blur") =
                IF batcher.horizontal_blurs = <<>> THEN {} ELSE {batcher.horizontal_blurs}

\* the same on alpha targets only
AlphaTargetBlursSubmitTheirOwnInstances ==
    batcher.phase = "alpha" => C35_BlurDrawsSubmitTheirOwnInstances

----------------------------------------------------------------------------
(* Conservation of the render-target textures.                             *)

\* every texture created so far is in ids, once
HeldOnce(ids, created) ==
    /\ Len(ids) = created
    /\ {ids[i] : i \in 1 .. Len(ids)} = 1 .. created

\* between renders, every texture is in the pool
AllPooled(s) ==
    /\ ~IsSome(s.cache_a8_texture)
    /\ ~IsSome(s.cache_rgba8_texture)
    /\ HeldTextures(s) = [i \in 1 .. Len(s.render_target_pool) |->
                                s.render_target_pool[i].id]
    /\ HeldOnce(HeldTextures(s), s.next_texture - 1)

\* C36: over every render that returns, each texture created so far is held
\* in exactly one place whenever a pass has ended; after the render all of
\* them are in render_target_pool, which has kept the textures it had and
\* has grown by the number of textures created in the render
C36_TextureConservation ==
    [][~resolver'.panicked =>
        /\ \A k \in 1 .. Len(resolver'.h_log) :
                resolver'.h_log[k].op = "held" =>
                    HeldOnce(resolver'.h_log[k].ids, resolver'.h_log[k].created)
        /\ AllPooled(resolver')
        /\ PoolIds(resolver.render_target_pool) \subseteq PoolIds(resolver'.render_target_pool)
        /\ Len(resolver'.render_target_pool) - Len(resolver.render_target_pool)
                = resolver'.next_texture - resolver.next_texture]_vars

\* after a pass of a second render, with textures pooled by the first, one
\* texture was in a cache slot and not in the pool
C36_Witness ==
    /\ ~resolver.panicked
    /\ \E k \in 1 .. Len(resolver.h_log) :
        /\ resolver.h_log[k].op = "held"
        /\ resolver.h_log[k].created >= 3
        /\ Len(resolver.render_target_pool) > resolver.h_log[k].created - 2
        /\ resolver.h_log[1].op = "prepare_target_list"

----------------------------------------------------------------------------
(* The assertions of SourceTextureResolver::begin_frame.                   *)

BeginFrames ==
    {k \in 1 .. Len(resolver.h_log) : resolver.h_log[k].op = "begin_frame"}

\* C37: whenever the pass loop of a frame starts, cache_rgba8_texture and
\* cache_a8_texture are both None, and no texture is ever pooled under a
\* pass index below 0
C37_BeginFrameAssertionsHold ==
    /\ \A k \in BeginFrames :
        /\ resolver.h_log[k].cache_rgba8_texture = None
        /\ resolver.h_log[k].cache_a8_texture = None
    /\ \A k \in 1 .. Len(resolver.h_log) :
        resolver.h_log[k].op = "render_target_pool_push"
            => resolver.h_log[k].pass_index >= 0

\* the second frame of a render began after the first frame had pooled the
\* outputs of its last pass
C37_Witness ==
    /\ ~resolver.panicked
    /\ \E k \in BeginFrames : \E j \in 1 .. k - 1 :
        /\ resolver.h_log[j].op = "render_target_pool_push"
        /\ resolver.h_log[k].doc > resolver.h_log[j].doc


----------------------------------------------------------------------------
(* The GPU-cache update lists and the frames they arrived with.            *)

\* the trace positions where the update list that arrived with a frame is
\* applied (the list of the deferred resolves belongs to no published frame)
AppliedLists ==
    {k \in OpIndices("gpu_cache_update") : "h_fid" \in DOMAIN renderer.log[k].list}

AppliedListsOf(fid) == {k \in AppliedLists : renderer.log[k].list.h_fid = fid}

PendingListsOf(fid) ==
    {k \in 1 .. Len(renderer.pending_gpu_cache_updates) :
        /\ "h_fid" \in DOMAIN renderer.pending_gpu_cache_updates[k]
        /\ renderer.pending_gpu_cache_updates[k].h_fid = fid}

\* in the call that ended, no list is applied twice, and a frame that was
\* drawn has its own list neither applied after the draw nor still pending
UpdateListsAppliedBeforeOwnFrame ==
    ~renderer.panicked =>
        /\ \A k \in AppliedLists :
            Cardinality(AppliedListsOf(renderer.log[k].list.h_fid)) = 1
        /\ \A k \in OpIndices("draw") :
            /\ PendingListsOf(renderer.log[k].fid) = {}
            /\ \A j \in AppliedListsOf(renderer.log[k].fid) : j < k

\* C38: each update list is applied once, before the first draw of the frame
\* it arrived with, and no frame is drawn after the update list of a frame
\* published later than it has been applied
C38_NoFrameDrawnWithLaterUpdates ==
    /\ UpdateListsAppliedBeforeOwnFrame
    /\ ~renderer.panicked =>
        \A k \in OpIndices("draw") :
            \A j \in AppliedLists :
                j < k => renderer.log[j].list.h_fid <= renderer.log[k].fid

\* the replaced frame of a document was drawn off-screen by update() after
\* the update list of its successor had been applied
ReplacedFrameDrawnWithSuccessorUpdates ==
    /\ renderer.last_call = "update"
    /\ ~renderer.panicked
    /\ \E k \in OpIndices("draw") :
        \E j \in AppliedLists :
            /\ j < k
            /\ renderer.log[j].list.h_fid > renderer.log[k].fid
            /\ \E i \in 1 .. Len(renderer.active_documents) :
                /\ renderer.active_documents[i].frame.fid = renderer.log[j].list.h_fid
                /\ renderer.active_documents[i].frame.layer = renderer.log[k].layer

C38_ReplacedFrameKeepsItsOwnUpdates == ~ReplacedFrameDrawnWithSuccessorUpdates


----------------------------------------------------------------------------
(* RendererStats.                                                          *)

\* the draw calls the device received while the batches of the target were
\* drawn: those of submit_batch and those of the text-run passes
BatchDrawCalls ==
    {k \in 1 .. Len(batcher.device_log) :
        /\ batcher.device_log[k].op = "draw"
        /\ batcher.device_log[k].source \notin {"vertical_blur", "horizontal_blur"}}

\* the targets are counted: one color target or one alpha target
TargetCountsMatch ==
    TargetDrawn =>
        /\ batcher.stats.color_target_count = (IF batcher.phase = "color" THEN 1 ELSE 0)
        /\ batcher.stats.alpha_target_count = (IF batcher.phase = "alpha" THEN 1 ELSE 0)

\* C39: the stats count the work of the render: total_draw_calls is the
\* number of draw calls issued for the batches, alpha_target_count and
\* color_target_count the numbers of alpha and color targets drawn
C39_StatsCountTheWork ==
    /\ TargetCountsMatch
    /\ TargetDrawn => batcher.stats.total_draw_calls = Cardinality(BatchDrawCalls)

\* the targets drawn by the render that returned, by kind
TargetsDrawn(kinds) ==
    {k \in OpIndices("draw") : renderer.log[k].target \in kinds}

\* the stats render() returns count the alpha targets and the color targets
\* (the main framebuffer included) that the render drew
RenderStatsCountTargets ==
    (/\ renderer.last_call = "render"
     /\ ~renderer.panicked
     /\ IsSome(renderer.last_result)
     /\ Unwrap(renderer.last_result).ok)
        => /\ Unwrap(renderer.last_result).stats.alpha_target_count
                = Cardinality(TargetsDrawn({"alpha"}))
           /\ Unwrap(renderer.last_result).stats.color_target_count
                = Cardinality(TargetsDrawn({"color", "main"}))

\* a color target with two batches was drawn and total_draw_calls is still 0
DrawCallsNotCounted ==
    /\ ColorTargetDrawn
    /\ Cardinality(BatchDrawCalls) >= 2
    /\ batcher.stats.total_draw_calls = 0
    /\ batcher.stats.color_target_count = 1


----------------------------------------------------------------------------
(* The length of the CPU mirror of the GPU cache.                          *)

\* the slice [row * 1024, row * 1024 + 1024) that flush reads lies within
\* cpu_blocks
RowSliceInBounds(ct, row) ==
    row * MAX_VERTEX_TEXTURE_WIDTH + MAX_VERTEX_TEXTURE_WIDTH <= ct.cpu_blocks.len

\* C40: cpu_blocks.len() == rows.len() * MAX_VERTEX_TEXTURE_WIDTH in every
\* reachable state, so the slice flush reads for any existing row is within
\* bounds
C40_MirrorLengthMatchesRows ==
    /\ cache.texture.cpu_blocks.len = Len(cache.texture.rows) * MAX_VERTEX_TEXTURE_WIDTH
    /\ \A row \in 0 .. Len(cache.texture.rows) - 1 :
            RowSliceInBounds(cache.texture, row)
    /\ \A p \in cache.texture.cpu_blocks.nz :
            p[1] >= 0 /\ p[1] < cache.texture.cpu_blocks.len

\* the mirror has grown to its last row and a flush has uploaded that row
C40_Witness ==
    /\ ~cache.panicked
    /\ Len(cache.texture.rows) = MaxRow + 1
    /\ IsSome(cache.last_flush)
    /\ \E i \in 1 .. Len(Unwrap(cache.last_flush).uploads) :
            Unwrap(cache.last_flush).uploads[i].y = MaxRow

====
